---- MODULE Spec2Model ----
(***************************************************************************)
(* Meal-plan generator: query interpretation (parse, validate, resolve     *)
(* contradictions), strategy routing and plan assembly.                    *)
(*                                                                         *)
(* Conventions of the model                                                *)
(*  - An optional value (Python None or a value) is the empty sequence or  *)
(*    a one-element sequence.                                              *)
(*  - A query text is the record of what the regular expressions and the   *)
(*    substring tests of the parser and the validators read from it.       *)
(*  - The tag lists (dietary_restrictions, preferences,                    *)
(*    special_requirements, contradictions) are sets: the code builds them *)
(*    with list(set(...)) or without duplicates, and their order is the    *)
(*    arbitrary iteration order of a Python set.                           *)
(*  - A contradiction string is the sequence of the parts that             *)
(*    str.split(" and ") yields: <<"vegan", "pescatarian">> is the text    *)
(*    "vegan and pescatarian", <<"vegan pescatarian">> a text without      *)
(*    " and ".                                                             *)
(*  - The Hybrid ratio is held in hundredths (0.7 is 70).                  *)
(***************************************************************************)
EXTENDS Integers, Sequences, FiniteSets, TLC

VARIABLES
    pc,          \* position of the operation in progress
    strategy,    \* what generate reads as self.recipe_service.strategy
    query,       \* the query text of the operation in progress
    llm,         \* outcome of the structured-extraction call of parse
    parsed,      \* the ParsedQuery the operation works on
    validated,   \* the ParsedQuery as parse returned it (before resolution)
    revalidated, \* result of validating `parsed` a second time
    warning,     \* the warning of _resolve_contradictions
    result,      \* what generate returned
    hybrid,      \* a HybridStrategy instance
    lastCall,    \* the latest routing decision of the HybridStrategy
    prevCall,    \* the routing decision before it
    strategy_mode, \* the mode name last given to the strategy factory
    call,        \* the latest call on a strategy object and what it returned
    http,        \* the latest request to POST /api/generate-meal-plan and its answer
    used,        \* the used-recipe trackers of the service and of the strategy
    flight       \* the per-meal generation calls of generate, in order of events

vars == <<pc, strategy, query, llm, parsed, validated, revalidated, warning,
          result, hybrid, lastCall, prevCall, strategy_mode, call, http, used,
          flight>>

\* the state of the service layer
serviceVars == <<strategy_mode, call, http, used, flight>>

----------------------------------------------------------------------------
(* Bounds of the model *)

\* largest number a text or an extraction result gives for days
MaxRequestedDays == 9
\* largest number a text or an extraction result gives for meals per day
MaxRequestedMeals == 5
\* how far outside [0,1] (in hundredths) a supplied Hybrid ratio may lie
RatioSlack == 3
\* largest day number passed to a Hybrid call
MaxHybridDay == 2
\* largest duration_days of a direct generate_full_plan call, and most days
\* of a response to it
MaxFastDays == 2
\* most meals in one day of a response to generate_full_plan
MaxFastMeals == 2
\* most candidates the recipe retriever returns for one request
MaxCandidates == 4
\* most days of a plan assembled meal by meal
MaxPerMealDays == 2
\* most recipe names one LLMOnlyStrategy object is given
MaxNames == 52
\* most recipes in one response to generate_day_meals
MaxBatch == 2
\* most candidates retrieved for a call that runs beside another call
MaxSharedCandidates == 5
\* most candidates handed to _validate_recipe
MaxValidatedCandidates == 2

(* Program constants *)

MaxDurationDays == 7
MinDurationDays == 1
MaxMealsPerDay == 4
MinMealsPerDay == 1
DefaultDurationDays == 3
DefaultMealsPerDay == 3
QuickMealMinutes == 30
FallbackPlanDays == 3
RatioUnit == 100
DefaultRagRatio == 70
max_prompt_candidates == 3
MinQueryLength == 1
UsedRecipesCap == 50
TolerancePercent == 20
IndexModulus == 10
DayStride == 10
RatioScale == 10

None == <<>>
Some(x) == <<x>>
Val(o) == o[1]

Min(a, b) == IF a < b THEN a ELSE b
Max(a, b) == IF a > b THEN a ELSE b
\* max(lo, min(hi, x))
Clamp(lo, hi, x) == Max(lo, Min(hi, x))

----------------------------------------------------------------------------
(* Strings *)

\* str.lower() on the tags of the model
Lower(s) == IF s = "Vegan" THEN "vegan" ELSE IF s = "Dinner" THEN "dinner" ELSE s

MealTypeOrder == <<"breakfast", "lunch", "dinner", "snack">>

\* the subsequence of MealTypeOrder whose members are in S
RECURSIVE MentionedFrom(_, _)
MentionedFrom(i, S) ==
    IF i > Len(MealTypeOrder) THEN <<>>
    ELSE (IF MealTypeOrder[i] \in S THEN <<MealTypeOrder[i]>> ELSE <<>>)
         \o MentionedFrom(i + 1, S)

\* list[:n]
Prefix(s, n) == SubSeq(s, 1, Min(Len(s), Max(n, 0)))

\* default meal types for a meal count
DefaultMealTypes(n) ==
    IF n = 1 THEN <<"lunch">>
    ELSE IF n = 2 THEN <<"breakfast", "dinner">>
    ELSE IF n = 3 THEN <<"breakfast", "lunch", "dinner">>
    ELSE <<"breakfast", "lunch", "dinner", "snack">>

----------------------------------------------------------------------------
(* Query texts and extraction results *)

BudgetFriendlyWords == {"budget", "cheap", "affordable", "low cost", "inexpensive"}
ModerateWords == {"moderate", "reasonable", "average"}
PremiumWords == {"premium", "expensive", "luxury", "gourmet", "high-end"}
QuickKeywords == {"quick", "fast", "easy", "simple"}

\* the keywords _parse_with_regex turns into dietary restrictions
RestrictionKeywords ==
    {"vegan", "vegetarian", "gluten-free", "dairy-free", "nut-free",
     "pescatarian", "paleo", "keto"}
\* the preferences _parse_with_regex extracts
PreferenceKeywords == {"high-protein", "low-carb", "mediterranean"}

\* A text with none of the features the code looks for ("meal plan").
BaseText ==
    [dayNum      |-> None,   \* first match of (\d+)\s*day
     week        |-> FALSE,  \* 'week' in text or '7' in text
     mealNum     |-> None,   \* first match of (\d+)\s*meals?
     mealWords   |-> {},     \* meal types named (supper counts as dinner)
     only        |-> FALSE,  \* 'only' in text
     dietWords   |-> {},     \* restriction keywords in the text
     prefWords   |-> {},     \* preference keywords in the text
     budgetWords |-> {},     \* budget keywords in the text
     timeNum     |-> None,   \* the number of the text's "N minute(s)" phrase
     quickWords  |-> {}]     \* quick-meal keywords in the text

OptNums(hi) == {None} \cup {Some(n) : n \in 0..hi}

DurationTexts ==
    {[BaseText EXCEPT !.dayNum = d, !.week = w, !.dietWords = dw] :
        d \in OptNums(MaxRequestedDays), w \in BOOLEAN,
        dw \in {{}, {"vegan"}}}

MealTexts ==
    {[BaseText EXCEPT !.mealNum = m, !.mealWords = mw, !.only = o] :
        m \in OptNums(MaxRequestedMeals),
        mw \in {{}, {"lunch"}, {"breakfast", "dinner"},
                {"breakfast", "lunch", "dinner", "snack"}},
        o \in BOOLEAN}

DietTexts ==
    {[BaseText EXCEPT !.dietWords = dw, !.prefWords = pw] :
        dw \in SUBSET {"vegan", "pescatarian", "vegetarian", "keto"},
        pw \in SUBSET {"low-carb", "high-protein"}}

BudgetTimeTexts ==
    {[BaseText EXCEPT !.budgetWords = b, !.timeNum = t, !.quickWords = k] :
        b \in {{}, {"budget"}, {"affordable"}, {"premium"}, {"cheap", "gourmet"}},
        t \in {None, Some(0), Some(15), Some(QuickMealMinutes), Some(45)},
        k \in {{}, {"quick"}, {"easy"}}}

Texts == DurationTexts \cup MealTexts \cup DietTexts \cup BudgetTimeTexts

\* the texts paired with a successful structured extraction
ExtractionTexts ==
    {BaseText,
     [BaseText EXCEPT !.mealNum = Some(2)],
     [BaseText EXCEPT !.mealNum = Some(MaxRequestedMeals), !.mealWords = {"lunch"}],
     [BaseText EXCEPT !.mealWords = {"breakfast", "dinner"}],
     [BaseText EXCEPT !.budgetWords = {"budget"}, !.quickWords = {"quick"}],
     [BaseText EXCEPT !.timeNum = Some(45)]}

\* the JSON object of a structured extraction
BaseRaw ==
    [duration_days        |-> DefaultDurationDays,
     meals_per_day        |-> DefaultMealsPerDay,
     meal_types           |-> <<>>,
     dietary_restrictions |-> {},
     preferences          |-> {},
     special_requirements |-> {},
     contradictions       |-> {}]

RawResults ==
    {[BaseRaw EXCEPT !.duration_days = d] : d \in 0..MaxRequestedDays}
    \cup
    {[BaseRaw EXCEPT !.meals_per_day = m, !.meal_types = mt] :
        m \in 0..MaxRequestedMeals,
        mt \in {<<>>, <<"lunch">>, <<"dinner", "breakfast">>,
                <<"breakfast", "lunch", "dinner", "snack">>}}
    \cup
    {[BaseRaw EXCEPT !.dietary_restrictions = r, !.preferences = p,
                     !.contradictions = c] :
        r \in {{}, {"vegan", "pescatarian"}, {"Vegan", "pescatarian"},
               {"keto"}, {"vegan", "gluten-free"}},
        p \in {{}, {"high-carb"}, {"keto", "high-carb"}, {"low-carb", "high-carb"}},
        c \in {{}, {<<"vegan pescatarian">>}, {<<"gluten-free", "vegan">>},
               {<<"keto", "high-carb">>, <<"high-carb", "low-carb">>}}}
    \cup
    {[BaseRaw EXCEPT !.special_requirements = s] :
        s \in {{"budget-friendly"}, {"premium", "quick meals"}}}
    \cup
    {[BaseRaw EXCEPT !.dietary_restrictions = {"gluten-free", "vegan", "pescatarian"},
                     !.contradictions = {<<"gluten-free", "vegan">>,
                                         <<"vegan", "pescatarian">>}]}

\* the structured-extraction call raised (timeout, malformed JSON, ...)
LLMFailed == [ok |-> FALSE, raw |-> BaseRaw]
LLMReturned(raw) == [ok |-> TRUE, raw |-> raw]

\* the (text, extraction outcome) pairs of the model
Inputs ==
    {<<t, LLMFailed>> : t \in Texts}
    \cup {<<t, LLMReturned(r)>> : t \in ExtractionTexts, r \in RawResults}

----------------------------------------------------------------------------
(* QueryParser *)

NoPrepTime == None

_parse_with_regex(q) ==
    LET duration0 == IF q.dayNum # None THEN Val(q.dayNum)
                     ELSE IF q.week THEN MaxDurationDays
                     ELSE DefaultDurationDays
        duration == Clamp(MinDurationDays, MaxDurationDays, duration0)
        meals0 == IF q.mealNum # None THEN Val(q.mealNum) ELSE DefaultMealsPerDay
        meals == Clamp(MinMealsPerDay, MaxMealsPerDay, meals0)
        named == MentionedFrom(1, q.mealWords)
        meal_types == IF named = <<>> THEN DefaultMealTypes(meals) ELSE named
    IN  [duration_days        |-> duration,
         meals_per_day        |-> meals,
         meal_types           |-> Prefix(meal_types, meals),
         dietary_restrictions |-> q.dietWords \cap RestrictionKeywords,
         preferences          |-> q.prefWords \cap PreferenceKeywords,
         special_requirements |->
             (IF q.budgetWords \cap {"budget", "cheap"} # {}
              THEN {"budget-friendly"} ELSE {})
             \cup
             (IF q.quickWords \cap {"quick", "fast"} # {} \/ q.timeNum = Some(15)
              THEN {"quick-meals"} ELSE {}),
         contradictions       |-> {},
         prep_time_max        |-> NoPrepTime]

_validate_and_clean(raw) ==
    LET duration == Clamp(MinDurationDays, MaxDurationDays, raw.duration_days)
        meals == Clamp(MinMealsPerDay, MaxMealsPerDay, raw.meals_per_day)
        meal_types == IF raw.meal_types = <<>> THEN DefaultMealTypes(meals)
                      ELSE raw.meal_types
    IN  [duration_days        |-> duration,
         meals_per_day        |-> meals,
         meal_types           |-> Prefix(meal_types, meals),
         dietary_restrictions |-> raw.dietary_restrictions,
         preferences          |-> raw.preferences,
         special_requirements |-> raw.special_requirements,
         contradictions       |-> raw.contradictions,
         prep_time_max        |-> NoPrepTime]

----------------------------------------------------------------------------
(* QueryValidator *)

_validate_meal_count(q, p) ==
    LET named == MentionedFrom(1, q.mealWords)
    IN  IF q.mealNum # None
        THEN \* pattern 1: explicit count, clamped to the valid range
             [p EXCEPT !.meals_per_day =
                 Clamp(MinMealsPerDay, MaxMealsPerDay, Val(q.mealNum))]
        ELSE IF named # <<>>
        THEN \* pattern 2: meal types named in the text
             [p EXCEPT !.meals_per_day = Len(named), !.meal_types = named]
        ELSE IF q.only /\ q.mealWords \cap {"breakfast", "lunch", "dinner"} # {}
        THEN \* pattern 3: "X only"
             [p EXCEPT !.meals_per_day = 1,
                       !.meal_types = <<MentionedFrom(1, q.mealWords)[1]>>]
        ELSE \* 'meals_per_day' is a key of every dict the parser builds
             p

_validate_duration(q, p) ==
    IF p.duration_days < MinDurationDays
    THEN [p EXCEPT !.duration_days = MinDurationDays]
    ELSE IF p.duration_days > MaxDurationDays
    THEN [p EXCEPT !.duration_days = MaxDurationDays]
    ELSE p

\* advisory only: the dict is not changed
_validate_dietary_restrictions(q, p) == p

known_contradictions ==
    {<<"vegan", "pescatarian">>, <<"vegan", "vegetarian">>,
     <<"keto", "high-carb">>, <<"low-carb", "high-carb">>}

_validate_contradictions(q, p) ==
    LET restrictions == p.dietary_restrictions
        found == {<<r, IF pair[1] = r THEN pair[2] ELSE pair[1]>> :
                     <<r, pair>> \in
                        {x \in restrictions \X known_contradictions :
                            /\ x[1] \in {x[2][1], x[2][2]}
                            /\ LET other == IF x[2][1] = x[1] THEN x[2][2]
                                            ELSE x[2][1]
                               IN  other \in restrictions
                                   \/ other \in p.preferences}}
    IN  [p EXCEPT !.contradictions = p.contradictions \cup found]

BudgetLevels == {"budget-friendly", "moderate", "premium"}

\* the first level, in the order of the keyword table, with a keyword in the text
budget_level(q) ==
    IF q.budgetWords \cap BudgetFriendlyWords # {} THEN Some("budget-friendly")
    ELSE IF q.budgetWords \cap ModerateWords # {} THEN Some("moderate")
    ELSE IF q.budgetWords \cap PremiumWords # {} THEN Some("premium")
    ELSE None

_validate_budget(q, p) ==
    LET level == budget_level(q)
    IN  IF level # None /\ "budget_level" \notin p.special_requirements
        THEN [p EXCEPT !.special_requirements =
                 (p.special_requirements \ BudgetLevels) \cup {Val(level)}]
        ELSE p

\* prep_time_max as _validate_prep_time computes it from the text
text_prep_time(q) ==
    IF q.timeNum # None THEN q.timeNum
    ELSE IF q.quickWords \cap QuickKeywords # {} THEN Some(QuickMealMinutes)
    ELSE None

\* variant: the quick-meals test reads the dict's previous prep_time_max
_validate_prep_time_stale(q, p) ==
    LET prep_time_max == text_prep_time(q)
    IN  IF prep_time_max # None /\ Val(prep_time_max) # 0
        THEN [p EXCEPT
                !.prep_time_max = prep_time_max,
                !.special_requirements =
                    IF p.prep_time_max # None
                       /\ Val(p.prep_time_max) <= QuickMealMinutes
                    THEN p.special_requirements \cup {"quick-meals"}
                    ELSE p.special_requirements]
        ELSE p

_validate_prep_time(q, p) ==
    LET prep_time_max == text_prep_time(q)
    IN  IF prep_time_max # None /\ Val(prep_time_max) # 0
        THEN [p EXCEPT
                !.prep_time_max = prep_time_max,
                !.special_requirements =
                    IF Val(prep_time_max) <= QuickMealMinutes
                    THEN p.special_requirements \cup {"quick-meals"}
                    ELSE p.special_requirements]
        ELSE p

\* QueryValidator.validate: the validators in the order of self.validators
validate(q, p) ==
    _validate_prep_time(q,
      _validate_budget(q,
        _validate_contradictions(q,
          _validate_dietary_restrictions(q,
            _validate_duration(q,
              _validate_meal_count(q, p))))))

\* QueryParser.parse: structured extraction, or the keyword fallback when the
\* extraction raised; the validators run on either result
parse(q, outcome) ==
    IF outcome.ok
    THEN validate(q, _validate_and_clean(outcome.raw))
    ELSE validate(q, _parse_with_regex(q))

----------------------------------------------------------------------------
(* MealPlanGenerator._resolve_contradictions *)

NoWarning == [kind |-> "none", removed |-> {}, kept |-> {}]
\* "I noticed you requested both {removed} and {kept}, which conflict. ..."
ConflictWarning(removed, kept) ==
    [kind |-> "conflict", removed |-> removed, kept |-> kept]
\* "I've resolved some conflicting requirements in your request."
GenericWarning == [kind |-> "generic", removed |-> {}, kept |-> {}]
\* "I encountered an issue generating your custom meal plan. ..."
FallbackWarning == [kind |-> "fallback", removed |-> {}, kept |-> {}]

resolution_rules ==
    {[pair |-> <<"vegan", "pescatarian">>, preferred |-> "vegan"],
     [pair |-> <<"vegan", "vegetarian">>, preferred |-> "vegan"],
     [pair |-> <<"keto", "high-carb">>, preferred |-> "keto"],
     [pair |-> <<"low-carb", "high-carb">>, preferred |-> "low-carb"]}

\* the rules that match the two items, in either order
MatchingRules(item1, item2) ==
    {rule \in resolution_rules :
        \/ item1 = rule.pair[1] /\ item2 = rule.pair[2]
        \/ item1 = rule.pair[2] /\ item2 = rule.pair[1]}

\* which item of a two-part contradiction is kept and which removed
Decide(item1, item2, acc) ==
    LET rules == MatchingRules(item1, item2)
        restrictions == {Lower(r) : r \in acc.dietary_restrictions}
        preferences == {Lower(x) : x \in acc.preferences}
    IN  IF rules # {}
        THEN LET preferred == (CHOOSE rule \in rules : TRUE).preferred
             IN  [keep |-> preferred,
                  remove |-> IF item1 = preferred THEN item2 ELSE item1]
        ELSE IF item1 \in restrictions /\ item2 \in preferences
        THEN [keep |-> item1, remove |-> item2]
        ELSE IF item2 \in restrictions /\ item1 \in preferences
        THEN [keep |-> item2, remove |-> item1]
        ELSE [keep |-> item1, remove |-> item2]

\* one iteration of the loop over the contradictions
ResolveOne(contradiction, acc) ==
    LET parts == [k \in 1..Len(contradiction) |-> Lower(contradiction[k])]
    IN  IF Len(parts) # 2 THEN acc
        ELSE LET d == Decide(parts[1], parts[2], acc)
             IN  [dietary_restrictions |->
                      {r \in acc.dietary_restrictions : Lower(r) # d.remove},
                  preferences |->
                      {x \in acc.preferences : Lower(x) # d.remove},
                  removed_items |-> acc.removed_items \cup {d.remove},
                  kept_items |-> acc.kept_items \cup {d.keep}]

RECURSIVE ResolveFrom(_, _, _)
ResolveFrom(order, i, acc) ==
    IF i > Len(order) THEN acc
    ELSE ResolveFrom(order, i + 1, ResolveOne(order[i], acc))

\* the orders in which a list built from the set S can be iterated
Orders(S) ==
    {o \in [1..Cardinality(S) -> S] : \A x \in S : \E k \in DOMAIN o : o[k] = x}

\* variant: no warning when no item was removed
resolution_warning_none_when_empty(removed_items, kept_items) ==
    IF removed_items # {} /\ kept_items # {}
    THEN ConflictWarning(removed_items, kept_items)
    ELSE NoWarning

\* the warning sentence built from the removed and the kept items
resolution_warning(removed_items, kept_items) ==
    IF removed_items # {} /\ kept_items # {}
    THEN ConflictWarning(removed_items, kept_items)
    ELSE GenericWarning

\* _resolve_contradictions, iterating the contradictions in the given order:
\* the resolved query and the warning
_resolve_contradictions(p, order) ==
    IF p.contradictions = {}
    THEN [parsed |-> p, warning |-> NoWarning]
    ELSE LET acc == ResolveFrom(order, 1,
                       [dietary_restrictions |-> p.dietary_restrictions,
                        preferences |-> p.preferences,
                        removed_items |-> {},
                        kept_items |-> {}])
         IN  [parsed |-> [p EXCEPT
                             !.dietary_restrictions = acc.dietary_restrictions,
                             !.preferences = acc.preferences,
                             !.contradictions = {}],
              warning |-> resolution_warning(acc.removed_items, acc.kept_items)]

----------------------------------------------------------------------------
(* Strategy selection *)

\* no mode given (None)
NoMode == ""
\* settings.recipe_generation_mode
ConfiguredMode == "llm_only"

\* mode.lower().strip() on the mode names of the model
normalize_mode(mode) ==
    IF mode = "Hybrid" THEN "hybrid"
    ELSE IF mode = " RAG" THEN "rag"
    ELSE IF mode = "FAST_LLM" THEN "fast_llm"
    ELSE mode

Modes ==
    {NoMode, "llm_only", "rag", "hybrid", "fast_llm", "Hybrid", " RAG",
     "FAST_LLM", "llm"}

\* RecipeStrategyFactory.create: the class of the strategy it returns
create(mode) ==
    LET m == normalize_mode(IF mode = NoMode THEN ConfiguredMode ELSE mode)
    IN  IF m = "llm_only" THEN "LLMOnlyStrategy"
        ELSE IF m = "rag" THEN "RAGStrategy"
        ELSE IF m = "hybrid" THEN "HybridStrategy"
        ELSE "LLMOnlyStrategy"

\* RecipeService as defined in recipe_service.py has no attribute `strategy`
NoStrategyAttribute == "no strategy attribute"

\* what generate can find as self.recipe_service.strategy
StrategyKinds == {NoStrategyAttribute} \cup {create(m) : m \in Modes}

\* hasattr(strategy, 'generate_full_plan')
HasFullPlan(kind) == kind = "FastLLMStrategy"

\* hasattr(strategy, 'generate_day_meals')
HasDayMeals(kind) == kind \in {"LLMOnlyStrategy", "RAGStrategy", "HybridStrategy"}

\* variant: generate_day_meals declares the keyword duration_days
AcceptsDurationDays_declared(kind) == TRUE

\* whether generate_day_meals of the class takes the keyword duration_days
AcceptsDurationDays(kind) == FALSE

----------------------------------------------------------------------------
(* Recipes and plans *)

Recipe(meal_type, source, well_typed) ==
    [meal_type |-> meal_type, source |-> source, well_typed |-> well_typed]

\* what the generation calls of one day can yield: recipes of the generative
\* service, the static recipes of a strategy whose calls failed, or recipes of
\* the service whose preparation time or nutrition is not of the type
\* _calculate_summary reads
DayOutcomes == {"generated", "calls failed", "ill typed"}

\* the meals a strategy returns for one day: one recipe per requested meal
\* type, in order (generate_day_meals pads with static recipes and sets
\* meal_type by position; generate_full_plan does the same)
StrategyMeals(meal_types, outcome) ==
    [i \in 1..Len(meal_types) |->
        IF outcome = "calls failed"
        THEN Recipe(meal_types[i], "AI Generated (Fallback)", TRUE)
        ELSE Recipe(meal_types[i], "AI Generated", outcome # "ill typed")]

FallbackTotalMeals == 9
FallbackCostLow == 25
FallbackCostHigh == 35
FallbackAvgPrepTime == 18

\* a preparation-time text, reduced to the integers it contains, in order
\* ("10 mins" is <<10>>, "quick" is <<>>, "1 hour 30" is <<1, 30>>)
PrepText(ints) == [ints |-> ints]

\* the fixed table of the static plan: meal type, preparation time, calories
FallbackRecipes ==
    << [meal_type |-> "breakfast", preparation_time |-> PrepText(<<10>>), calories |-> 350],
       [meal_type |-> "lunch", preparation_time |-> PrepText(<<15>>), calories |-> 280],
       [meal_type |-> "dinner", preparation_time |-> PrepText(<<30>>), calories |-> 450] >>

FallbackRecipe(i) ==
    [meal_type |-> FallbackRecipes[i].meal_type, source |-> "Default Recipe",
     well_typed |-> TRUE,
     preparation_time |-> FallbackRecipes[i].preparation_time,
     calories |-> FallbackRecipes[i].calories]

Cost(low, high) == [low |-> low, high |-> high]

NoSummary ==
    [total_meals |-> 0, dietary_compliance |-> {},
     estimated_cost |-> Cost(0, 0), avg_prep_time |-> 0]

RECURSIVE SumMeals(_, _)
SumMeals(days, i) ==
    IF i > Len(days) THEN 0 ELSE Len(days[i].meals) + SumMeals(days, i + 1)

\* _calculate_summary raises when a field of a meal is not of the type it reads
SummaryRaises(days) ==
    \E i \in DOMAIN days : \E j \in DOMAIN days[i].meals :
        ~days[i].meals[j].well_typed

\* the meals of all days, in order
RECURSIVE AllMeals(_, _)
AllMeals(days, i) ==
    IF i > Len(days) THEN <<>> ELSE days[i].meals \o AllMeals(days, i + 1)

\* meal.get("preparation_time", "30 mins"): a meal without the key reads as
\* "30 mins"
DefaultPrepMinutes == 30
prep_time_str(meal) ==
    IF "preparation_time" \in DOMAIN meal THEN meal.preparation_time
    ELSE PrepText(<<DefaultPrepMinutes>>)

\* re.search(r'(\d+)', prep_time_str): the first integer of the text, if any
time_match(meal) == Len(prep_time_str(meal).ints) > 0

\* variant: a text without an integer counts as 30 minutes
RECURSIVE prep_times_defaulting(_, _)
prep_times_defaulting(meals, i) ==
    IF i > Len(meals) THEN <<>>
    ELSE (IF time_match(meals[i]) THEN <<prep_time_str(meals[i]).ints[1]>>
          ELSE <<DefaultPrepMinutes>>)
         \o prep_times_defaulting(meals, i + 1)

\* prep_times: the first integer of every meal whose text has one; a text
\* without an integer adds nothing
RECURSIVE prep_times(_, _)
prep_times(meals, i) ==
    IF i > Len(meals) THEN <<>>
    ELSE (IF time_match(meals[i]) THEN <<prep_time_str(meals[i]).ints[1]>> ELSE <<>>)
         \o prep_times(meals, i + 1)

RECURSIVE SumSeq(_, _)
SumSeq(s, i) == IF i > Len(s) THEN 0 ELSE s[i] + SumSeq(s, i + 1)

NoPrepTimesMinutes == 25

\* the N of "N mins": int(sum / len) of prep_times, 25 when it is empty
avg_prep_time(meals) ==
    LET times == prep_times(meals, 1)
    IN  IF Len(times) > 0 THEN SumSeq(times, 1) \div Len(times)
        ELSE NoPrepTimesMinutes

\* meal.get("nutritional_info", {}).get("calories", 400)
DefaultCalories == 400
calories_of(meal) ==
    IF "calories" \in DOMAIN meal THEN meal.calories ELSE DefaultCalories

RECURSIVE total_calories(_, _)
total_calories(meals, i) ==
    IF i > Len(meals) THEN 0
    ELSE calories_of(meals[i]) + total_calories(meals, i + 1)

\* int(x * 0.7) in double arithmetic: the floor of 7x/10, one less where the
\* product falls just short of an integer (90, 170 and 180 below 200)
BudgetDiscount(x) ==
    IF x \in {90, 170, 180} THEN (x * 7) \div 10 - 1 ELSE (x * 7) \div 10

\* int(total_calories * 0.008) and int(total_calories * 0.012), each
\* discounted when "budget-friendly" is a special requirement
estimated_cost(meals, special_requirements) ==
    LET low == (total_calories(meals, 1) * 8) \div 1000
        high == (total_calories(meals, 1) * 12) \div 1000
    IN  IF "budget-friendly" \in special_requirements
        THEN Cost(BudgetDiscount(low), BudgetDiscount(high))
        ELSE Cost(low, high)

_calculate_summary(days, p) ==
    LET compliance == p.dietary_restrictions \cup p.preferences
    IN  [total_meals |-> SumMeals(days, 1),
         dietary_compliance |->
             IF compliance # {} THEN compliance ELSE {"standard"},
         estimated_cost |->
             estimated_cost(AllMeals(days, 1), p.special_requirements),
         avg_prep_time |-> avg_prep_time(AllMeals(days, 1))]

NoResult ==
    [kind |-> "none", has_id |-> FALSE, duration_days |-> 0,
     meal_plan |-> <<>>, summary |-> NoSummary, warning |-> NoWarning,
     error |-> "none"]

Plan(duration_days, days, summary, w) ==
    [kind |-> "plan", has_id |-> TRUE, duration_days |-> duration_days,
     meal_plan |-> days, summary |-> summary, warning |-> w,
     error |-> "none"]

Raised(error) == [NoResult EXCEPT !.kind = "raised", !.error = error]

\* variant: the static plan carries no warning
_generate_fallback_meal_plan_unwarned ==
    [kind |-> "plan", has_id |-> TRUE, duration_days |-> FallbackPlanDays,
     meal_plan |-> [day \in 1..FallbackPlanDays |->
            [day |-> day,
             meals |-> [i \in 1..3 |-> FallbackRecipe(i)]]],
     summary |-> [total_meals |-> FallbackTotalMeals,
                  dietary_compliance |-> {"standard"},
                  estimated_cost |-> Cost(FallbackCostLow, FallbackCostHigh),
                  avg_prep_time |-> FallbackAvgPrepTime],
     warning |-> NoWarning, error |-> "none"]

\* the static plan: 3 days of breakfast, lunch and dinner from the fixed table
_generate_fallback_meal_plan ==
    Plan(FallbackPlanDays,
         [day \in 1..FallbackPlanDays |->
            [day |-> day,
             meals |-> [i \in 1..3 |-> FallbackRecipe(i)]]],
         [total_meals |-> FallbackTotalMeals,
          dietary_compliance |-> {"standard"},
          estimated_cost |-> Cost(FallbackCostLow, FallbackCostHigh),
          avg_prep_time |-> FallbackAvgPrepTime],
         FallbackWarning)

----------------------------------------------------------------------------
(* MealPlanGenerator.generate *)

\* the duration generate works with (its own clamp of parsed["duration_days"])
plan_duration(p) ==
    IF p.duration_days > MaxDurationDays THEN MaxDurationDays
    ELSE IF p.duration_days < MinDurationDays THEN MinDurationDays
    ELSE p.duration_days

\* meal_types[:meals_per_day]
plan_meal_types(p) == Prefix(p.meal_types, p.meals_per_day)

\* the exception, if any, that the dispatch on the strategy raises before any
\* recipe is generated
DispatchError(kind) ==
    IF kind = NoStrategyAttribute
    THEN Some("AttributeError")   \* self.recipe_service.strategy
    ELSE IF HasFullPlan(kind) THEN None
    ELSE IF HasDayMeals(kind)
    THEN IF AcceptsDurationDays(kind) THEN None
         ELSE Some("TypeError")   \* unexpected keyword argument 'duration_days'
    ELSE Some("TypeError")        \* RecipeService.generate_recipe(duration_days=...)

\* the outcomes of the generation calls of the days of a plan
OutcomeChoices(p, kind) ==
    IF DispatchError(kind) # None THEN {<<>>}
    ELSE [1..plan_duration(p) -> DayOutcomes]

\* the body of the try block after contradiction resolution
generate_body(p, w, kind, outcomes) ==
    LET duration_days == plan_duration(p)
        meal_types == plan_meal_types(p)
        days == [day \in 1..duration_days |->
                    [day |-> day,
                     meals |-> StrategyMeals(meal_types, outcomes[day])]]
    IN  IF DispatchError(kind) # None THEN Raised(Val(DispatchError(kind)))
        ELSE IF SummaryRaises(days) THEN Raised("TypeError")
        ELSE Plan(duration_days, days, _calculate_summary(days, p), w)

\* variant: the handler is `except ValueError`
ExceptionClasses_value_error_only == {"ValueError"}

\* the classes `except Exception` catches
ExceptionClasses == {"AttributeError", "TypeError", "ValueError", "KeyError"}

\* generate: the try block, and the static plan for whatever it raised
generate(p, w, kind, outcomes) ==
    LET r == generate_body(p, w, kind, outcomes)
    IN  IF r.kind = "raised" /\ r.error \in ExceptionClasses
        THEN _generate_fallback_meal_plan
        ELSE r

----------------------------------------------------------------------------
(* The generate pipeline as a state machine *)

\* no strategy call, no request, empty trackers: the service layer at rest
NoStrategyCall == [op |-> "none"]
NoRequest == [status |-> 0]
NoneUsed == [service |-> {}, names |-> {}, titles |-> {}]
ServiceIdle ==
    /\ strategy_mode = NoMode
    /\ call = NoStrategyCall
    /\ http = NoRequest
    /\ used = NoneUsed
    /\ flight = <<>>

NoCall == [via |-> "none", day |-> 0, meal_types |-> <<>>, routes |-> <<>>]
NoHybrid == [constructed |-> FALSE, supplied |-> None, rag_ratio |-> 0]

Init ==
    /\ pc = "idle"
    /\ strategy \in StrategyKinds
    /\ query = BaseText
    /\ llm = LLMFailed
    /\ parsed = _parse_with_regex(BaseText)
    /\ validated = _parse_with_regex(BaseText)
    /\ revalidated = _parse_with_regex(BaseText)
    /\ warning = NoWarning
    /\ result = NoResult
    /\ hybrid = NoHybrid
    /\ lastCall = NoCall
    /\ prevCall = NoCall
    /\ ServiceIdle

\* generate(query) is called: parse (lines 120-122)
Parse ==
    /\ pc = "idle"
    /\ \E in \in Inputs :
        /\ query' = in[1]
        /\ llm' = in[2]
        /\ parsed' = parse(in[1], in[2])
        /\ validated' = parse(in[1], in[2])
    /\ pc' = "parsed"
    /\ warning' = NoWarning
    /\ result' = NoResult
    /\ UNCHANGED <<strategy, revalidated, hybrid, lastCall, prevCall>>
    /\ UNCHANGED serviceVars

\* contradiction resolution (lines 124-126)
Resolve ==
    /\ pc = "parsed"
    /\ \E order \in Orders(parsed.contradictions) :
        LET r == _resolve_contradictions(parsed, order)
        IN  /\ parsed' = r.parsed
            /\ warning' = r.warning
    /\ pc' = "resolved"
    /\ UNCHANGED <<strategy, query, llm, validated, revalidated, result,
                   hybrid, lastCall, prevCall>>
    /\ UNCHANGED serviceVars

\* reset, generation, summary and response, or the static plan (lines 128-232)
Assemble ==
    /\ pc = "resolved"
    /\ \E outcomes \in OutcomeChoices(parsed, strategy) :
        result' = generate(parsed, warning, strategy, outcomes)
    /\ pc' = "done"
    /\ UNCHANGED <<strategy, query, llm, parsed, validated, revalidated,
                   warning, hybrid, lastCall, prevCall>>
    /\ UNCHANGED serviceVars

\* the caller takes the plan; the generator is ready for the next query
Return ==
    /\ pc = "done"
    /\ pc' = "idle"
    /\ query' = BaseText
    /\ llm' = LLMFailed
    /\ parsed' = _parse_with_regex(BaseText)
    /\ validated' = _parse_with_regex(BaseText)
    /\ warning' = NoWarning
    /\ result' = NoResult
    /\ UNCHANGED <<strategy, revalidated, hybrid, lastCall, prevCall>>
    /\ UNCHANGED serviceVars

Next == Parse \/ Resolve \/ Assemble \/ Return

Spec == Init /\ [][Next]_vars

----------------------------------------------------------------------------
(* QueryValidator.validate applied twice *)

\* the parsed queries validate may be handed: every result of the two parsers
ParsedQueries ==
    {_validate_and_clean(r) : r \in RawResults}
    \cup {_parse_with_regex(t) : t \in Texts}

InitV ==
    /\ pc = "validator"
    /\ strategy = NoStrategyAttribute
    /\ query = BaseText
    /\ llm = LLMFailed
    /\ parsed = _parse_with_regex(BaseText)
    /\ validated = _parse_with_regex(BaseText)
    /\ revalidated = _parse_with_regex(BaseText)
    /\ warning = NoWarning
    /\ result = NoResult
    /\ hybrid = NoHybrid
    /\ lastCall = NoCall
    /\ prevCall = NoCall
    /\ ServiceIdle

\* validator.validate(query, parsed)
Validate ==
    /\ pc = "validator"
    /\ \E q \in Texts, p \in ParsedQueries :
        /\ query' = q
        /\ parsed' = p
        /\ validated' = validate(q, p)
    /\ pc' = "validated"
    /\ UNCHANGED <<strategy, llm, revalidated, warning, result, hybrid,
                   lastCall, prevCall>>
    /\ UNCHANGED serviceVars

\* validator.validate(query, corrected) on the dict the first call returned
Revalidate ==
    /\ pc = "validated"
    /\ revalidated' = validate(query, validated)
    /\ pc' = "revalidated"
    /\ UNCHANGED <<strategy, query, llm, parsed, validated, warning, result,
                   hybrid, lastCall, prevCall>>
    /\ UNCHANGED serviceVars

ValidatorDone ==
    /\ pc = "revalidated"
    /\ pc' = "validator"
    /\ query' = BaseText
    /\ parsed' = _parse_with_regex(BaseText)
    /\ validated' = _parse_with_regex(BaseText)
    /\ revalidated' = _parse_with_regex(BaseText)
    /\ UNCHANGED <<strategy, llm, warning, result, hybrid, lastCall, prevCall>>
    /\ UNCHANGED serviceVars

NextV == Validate \/ Revalidate \/ ValidatorDone

SpecV == InitV /\ [][NextV]_vars

----------------------------------------------------------------------------
(* HybridStrategy *)

\* the rag_ratio arguments of the constructor, in hundredths; None is the default
SuppliedRatios ==
    {None} \cup {Some(k) : k \in (0 - RatioSlack)..(RatioUnit + RatioSlack)}

\* HybridStrategy.__init__: `rag_ratio or <configured>`, then the clamp
HybridStrategy(rag_ratio) ==
    LET chosen == IF rag_ratio # None /\ Val(rag_ratio) # 0
                  THEN Val(rag_ratio)
                  ELSE DefaultRagRatio
    IN  [constructed |-> TRUE,
         supplied    |-> rag_ratio,
         rag_ratio   |-> Max(0, Min(RatioUnit, chosen))]

\* {"breakfast": 0, "lunch": 1, "dinner": 2, "snack": 3}.get(meal_type.lower(), 0)
meal_type_idx(meal_type) ==
    LET m == Lower(meal_type)
    IN  IF m = "lunch" THEN 1
        ELSE IF m = "dinner" THEN 2
        ELSE IF m = "snack" THEN 3
        ELSE 0

combined_index(day, meal_type) ==
    (day * DayStride + meal_type_idx(meal_type)) % IndexModulus

\* variant: the comparison is `<=`
use_rag_inclusive(rag_ratio, day, meal_type) ==
    combined_index(day, meal_type) * RatioUnit <= rag_ratio * RatioScale

\* combined_index < rag_ratio * 10, with rag_ratio in hundredths
use_rag(rag_ratio, day, meal_type) ==
    combined_index(day, meal_type) * RatioUnit < rag_ratio * RatioScale

\* the sub-strategy whose generate_recipe is awaited
Route(rag_ratio, day, meal_type) ==
    IF use_rag(rag_ratio, day, meal_type) THEN "RAGStrategy" ELSE "LLMOnlyStrategy"

HybridDays == 1..MaxHybridDay
HybridMealTypes == {"breakfast", "lunch", "dinner", "snack", "Dinner", "brunch"}
HybridMealLists ==
    {Prefix(MealTypeOrder, n) : n \in 1..MaxMealsPerDay}
    \cup {<<"Dinner", "brunch">>, <<"dinner", "dinner">>}

HybridCall(via, day, meal_types, rag_ratio) ==
    [via |-> via, day |-> day, meal_types |-> meal_types,
     routes |-> [i \in DOMAIN meal_types |-> Route(rag_ratio, day, meal_types[i])]]

InitHybrid ==
    /\ pc = "hybrid"
    /\ strategy = "HybridStrategy"
    /\ query = BaseText
    /\ llm = LLMFailed
    /\ parsed = _parse_with_regex(BaseText)
    /\ validated = _parse_with_regex(BaseText)
    /\ revalidated = _parse_with_regex(BaseText)
    /\ warning = NoWarning
    /\ result = NoResult
    /\ hybrid = NoHybrid
    /\ lastCall = NoCall
    /\ prevCall = NoCall
    /\ ServiceIdle

\* HybridStrategy(rag_ratio=...)
HybridNew ==
    /\ pc = "hybrid"
    /\ \E r \in SuppliedRatios : hybrid' = HybridStrategy(r)
    /\ pc' = "ready"
    /\ UNCHANGED <<strategy, query, llm, parsed, validated, revalidated,
                   warning, result, lastCall, prevCall>>
    /\ UNCHANGED serviceVars

\* HybridStrategy.generate_recipe(meal_type, ..., day)
HybridGenerateRecipe ==
    /\ pc = "ready"
    /\ \E day \in HybridDays, meal_type \in HybridMealTypes :
        lastCall' = HybridCall("generate_recipe", day, <<meal_type>>, hybrid.rag_ratio)
    /\ prevCall' = lastCall
    /\ UNCHANGED <<pc, strategy, query, llm, parsed, validated, revalidated,
                   warning, result, hybrid>>
    /\ UNCHANGED serviceVars

\* HybridStrategy.generate_day_meals(day, meal_types, ...)
HybridGenerateDayMeals ==
    /\ pc = "ready"
    /\ \E day \in HybridDays, meal_types \in HybridMealLists :
        lastCall' = HybridCall("generate_day_meals", day, meal_types, hybrid.rag_ratio)
    /\ prevCall' = lastCall
    /\ UNCHANGED <<pc, strategy, query, llm, parsed, validated, revalidated,
                   warning, result, hybrid>>
    /\ UNCHANGED serviceVars

\* the strategy object is dropped
HybridDrop ==
    /\ pc = "ready"
    /\ pc' = "hybrid"
    /\ hybrid' = NoHybrid
    /\ lastCall' = NoCall
    /\ prevCall' = NoCall
    /\ UNCHANGED <<strategy, query, llm, parsed, validated, revalidated,
                   warning, result>>
    /\ UNCHANGED serviceVars

NextHybrid ==
    HybridNew \/ HybridGenerateRecipe \/ HybridGenerateDayMeals \/ HybridDrop

SpecHybrid == InitHybrid /\ [][NextHybrid]_vars

----------------------------------------------------------------------------
(* The service layer: strategy factory, strategy objects, request handler *)

InitService ==
    /\ pc = "service"
    /\ strategy = NoStrategyAttribute
    /\ query = BaseText
    /\ llm = LLMFailed
    /\ parsed = _parse_with_regex(BaseText)
    /\ validated = _parse_with_regex(BaseText)
    /\ revalidated = _parse_with_regex(BaseText)
    /\ warning = NoWarning
    /\ result = NoResult
    /\ hybrid = NoHybrid
    /\ lastCall = NoCall
    /\ prevCall = NoCall
    /\ ServiceIdle

(* FastLLMStrategy *)

\* a recipe of FastLLMStrategy: the static one (_generate_fallback_recipe), or
\* an entry of the response, as it was or with defaults for its missing fields
FastRecipe(meal_type, origin) == [meal_type |-> meal_type, origin |-> origin]

\* the kinds of entry of a day's "meals" list in a response
MealEntries == {"complete", "fields missing", "not an object"}

\* the "meals" lists of the model: complete entries, at most one of them
\* replaced by an incomplete or malformed one
MealLists ==
    {[i \in 1..n |-> "complete"] : n \in 0..MaxFastMeals}
    \cup {[i \in 1..n |-> IF i = k THEN e ELSE "complete"] :
            n \in 1..MaxFastMeals, k \in 1..MaxFastMeals,
            e \in MealEntries \ {"complete"}}

\* an entry of "days": an object with its "meals" list, or something else
DayEntries ==
    {[object |-> TRUE, meals |-> m] : m \in MealLists}
    \cup {[object |-> FALSE, meals |-> <<>>]}

RECURSIVE SeqsUpTo(_, _)
SeqsUpTo(S, n) ==
    IF n = 0 THEN {<<>>}
    ELSE SeqsUpTo(S, n - 1)
         \cup {Append(q, x) : q \in {r \in SeqsUpTo(S, n - 1) : Len(r) = n - 1},
                              x \in S}

\* what the one chat-completion call of generate_full_plan yields: it raised
\* (timeout, transport error, content that is not JSON, "days" that is no
\* list), or a JSON object with its "days"
FastResponses ==
    {[ok |-> FALSE, days |-> <<>>]}
    \cup {[ok |-> TRUE, days |-> d] : d \in SeqsUpTo(DayEntries, MaxFastDays)}

\* whether the validation loop of the try block raises: it reaches a day entry
\* that is no object, or hands _validate_recipe a meal that is no object
FastLoopRaises(duration_days, meal_types, days) ==
    \E d \in 1..Min(duration_days, Len(days)) :
        \/ ~days[d].object
        \/ \E i \in 1..Min(Len(meal_types), Len(days[d].meals)) :
              days[d].meals[i] = "not an object"

\* the except branch: static recipes for every slot
FastAllFallback(duration_days, meal_types) ==
    [d \in 1..duration_days |->
        [i \in 1..Len(meal_types) |-> FastRecipe(meal_types[i], "static fallback")]]

\* variant: a day keeps only the meals the response holds for it
FastValidatedMeals_unpadded(meal_types, day_meals) ==
    [i \in 1..Min(Len(meal_types), Len(day_meals)) |->
        FastRecipe(meal_types[i],
                   IF day_meals[i] = "complete" THEN "response"
                   ELSE "response with defaults")]

\* the inner loop over meal_types (lines 107-116)
FastValidatedMeals(meal_types, day_meals) ==
    [i \in 1..Len(meal_types) |->
        IF i <= Len(day_meals)
        THEN FastRecipe(meal_types[i],
                        IF day_meals[i] = "complete" THEN "response"
                        ELSE "response with defaults")
        ELSE FastRecipe(meal_types[i], "static fallback")]

\* FastLLMStrategy.generate_full_plan: the number of chat-completion calls
\* and the lists it returns
generate_full_plan(duration_days, meal_types, response) ==
    [llm_calls |-> 1,
     all_meals |->
        IF ~response.ok \/ FastLoopRaises(duration_days, meal_types, response.days)
        THEN FastAllFallback(duration_days, meal_types)
        ELSE [d \in 1..duration_days |->
                FastValidatedMeals(meal_types,
                    IF d <= Len(response.days) THEN response.days[d].meals
                    ELSE <<>>)]]

(* RAGStrategy *)

\* the fields of a recipe
RecipeFields ==
    {"recipe_name", "description", "ingredients", "nutritional_info",
     "preparation_time", "instructions", "source", "meal_type"}

\* what one chat-completion call for a recipe yields: a JSON object with every
\* field of the prompt, one with fields missing, content that is not a JSON
\* object of the expected types, or an exception (timeout, transport error)
GenOutcomes == {"complete", "fields missing", "malformed", "failed"}
OutcomeFields(outcome) ==
    IF outcome = "complete" THEN RecipeFields \ {"meal_type"}
    ELSE {"description", "instructions"}

\* a recipe: the fields it has, where it came from, the candidate it was
\* converted from (0: none)
RagRecipe(fields, origin, title, meal_type) ==
    [fields |-> fields, origin |-> origin, title |-> title, meal_type |-> meal_type]

\* LLMOnlyStrategy._validate_recipe: a default for every missing field, and
\* the meal type
llm_validate_recipe(fields) ==
    fields \cup {"recipe_name", "description", "ingredients", "nutritional_info",
                 "preparation_time", "instructions", "source"}
           \cup {"meal_type"}

\* LLMOnlyStrategy.generate_recipe: the validated object, or the static recipe
\* of the meal type when the call or the parsing raised
llm_generate_recipe(meal_type, outcome) ==
    IF outcome \in {"complete", "fields missing"}
    THEN RagRecipe(llm_validate_recipe(OutcomeFields(outcome)), "generated", 0, meal_type)
    ELSE RagRecipe(RecipeFields, "static fallback", 0, meal_type)

\* RAGStrategy._validate_recipe
rag_validate_recipe(fields) ==
    fields \cup {"recipe_name", "description", "ingredients", "nutritional_info",
                 "preparation_time", "instructions", "source"}
           \cup {"meal_type"}

\* RAGStrategy._candidate_to_recipe
_candidate_to_recipe(title, meal_type) ==
    RagRecipe(RecipeFields, "candidate", title, meal_type)

\* what _get_candidates returns: nothing (the retriever caught an error, or the
\* search had no hit), or the candidates 1..n, named by their titles
Retrievals ==
    {[error |-> TRUE, candidates |-> {}]}
    \cup {[error |-> FALSE, candidates |-> 1..n] : n \in 0..MaxCandidates}

\* the titles used for a meal type
UsedTitles(titles, meal_type) == {t[2] : t \in {x \in titles : x[1] = meal_type}}

\* _filter_used_candidates together with lines 95-98 of generate_recipe: the
\* candidates to choose from, and whether the meal type's used list was emptied
AvailableCandidates(candidates, usedTitles) ==
    LET available == candidates \ usedTitles
        refill == Cardinality(available) < 2
                  /\ Cardinality(candidates) > Cardinality(usedTitles)
    IN  IF refill \/ available = {}
        THEN [candidates |-> candidates, emptied |-> TRUE]
        ELSE [candidates |-> available, emptied |-> FALSE]

\* random.shuffle and [:max_prompt_candidates]: the selections that can come
\* out, each with the candidate that stands first
Selections(available) ==
    UNION {{[first |-> f, titles |-> S] :
              S \in {T \in SUBSET available :
                       /\ f \in T
                       /\ Cardinality(T) = Min(max_prompt_candidates,
                                               Cardinality(available))}} :
           f \in available}

\* the candidates listed in the prompt: candidates[:5] of the list handed to
\* _generate_with_candidates, as it is before the exclusion filter (the
\* selection never holds more than max_prompt_candidates, so the slice keeps
\* it whole)
prompt_candidates(selection) == selection.titles

\* the first candidate left by the exclusion filter of _generate_with_candidates
\* (the unfiltered list when the filter leaves nothing)
FirstCandidates(selection, excluded) ==
    IF selection.titles \ excluded = {} THEN {selection.first}
    ELSE IF selection.first \notin excluded THEN {selection.first}
    ELSE selection.titles \ excluded

\* variant: no handler around the chat-completion call
_generate_with_candidates_unguarded(meal_type, outcome, first) ==
    IF outcome \in {"complete", "fields missing"}
    THEN [raised |-> FALSE,
          recipe |-> RagRecipe(rag_validate_recipe(OutcomeFields(outcome)),
                               "generated from candidates", 0, meal_type)]
    ELSE [raised |-> TRUE, recipe |-> RagRecipe({}, "none", 0, meal_type)]

\* _generate_with_candidates: the validated object, or the first candidate
\* converted when the call, the parsing or the validation raised
_generate_with_candidates(meal_type, outcome, first) ==
    IF outcome \in {"complete", "fields missing"}
    THEN [raised |-> FALSE,
          recipe |-> RagRecipe(rag_validate_recipe(OutcomeFields(outcome)),
                               "generated from candidates", 0, meal_type)]
    ELSE [raised |-> FALSE, recipe |-> _candidate_to_recipe(first, meal_type)]

\* RAGStrategy.generate_recipe: what it returns and the used titles it leaves
rag_generate_recipe(meal_type, retrieval, outcome, selection, first, titles) ==
    IF retrieval.candidates = {}
    THEN [raised |-> FALSE,
          recipe |-> llm_generate_recipe(meal_type, outcome),
          titles |-> titles]
    ELSE LET a == AvailableCandidates(retrieval.candidates,
                                      UsedTitles(titles, meal_type))
             kept == IF a.emptied
                     THEN {t \in titles : t[1] # meal_type} ELSE titles
             r == _generate_with_candidates(meal_type, outcome, first)
         IN  [raised |-> r.raised,
              recipe |-> r.recipe,
              titles |-> IF r.raised THEN kept
                         ELSE kept \cup {<<meal_type, t>> : t \in selection.titles}]

\* what a call on a strategy object leaves alone
strategyCallFrame ==
    <<query, llm, parsed, validated, revalidated, warning, result, hybrid,
      lastCall, prevCall, http, flight>>

\* what a generate on a generator that holds the strategy object leaves alone
generateFrame ==
    <<query, llm, parsed, validated, revalidated, warning, hybrid,
      lastCall, prevCall, http>>

\* the names a generated recipe can carry
RecipeNames == {"n1", "n2"}

\* reset() of each strategy class: LLMOnlyStrategy clears its used recipe
\* names, RAGStrategy its used candidate titles, HybridStrategy both (of its two
\* inner strategies), FastLLMStrategy has nothing to clear
strategy_reset(kind, u) ==
    IF kind = "LLMOnlyStrategy" THEN [u EXCEPT !.names = {}]
    ELSE IF kind = "RAGStrategy" THEN [u EXCEPT !.titles = {}]
    ELSE IF kind = "HybridStrategy" THEN [u EXCEPT !.names = {}, !.titles = {}]
    ELSE u

\* RecipeService.reset_used_recipes: self.used_recipes.clear()
reset_used_recipes(u) == [u EXCEPT !.service = {}]

\* RecipeStrategyFactory.create(mode)
FactoryCreate ==
    /\ pc = "service"
    /\ \E m \in Modes :
        /\ strategy_mode' = m
        /\ strategy' = create(m)
    /\ call' = [op |-> "RecipeStrategyFactory.create"]
    /\ used' = NoneUsed
    /\ pc' = "strategy"
    /\ UNCHANGED strategyCallFrame

\* the strategy object is dropped
StrategyDrop ==
    /\ pc = "strategy"
    /\ pc' = "service"
    /\ strategy' = NoStrategyAttribute
    /\ strategy_mode' = NoMode
    /\ call' = NoStrategyCall
    /\ used' = NoneUsed
    /\ UNCHANGED strategyCallFrame

\* FastLLMStrategy(): the class no mode of the factory leads to
FastNew ==
    /\ pc = "service"
    /\ strategy' = "FastLLMStrategy"
    /\ call' = [op |-> "FastLLMStrategy"]
    /\ pc' = "strategy"
    /\ UNCHANGED <<strategy_mode, used>>
    /\ UNCHANGED strategyCallFrame

FastMealTypes ==
    {<<"breakfast">>, <<"lunch", "dinner">>, <<"breakfast", "lunch", "dinner">>}

\* FastLLMStrategy.generate_full_plan(duration_days, meal_types, ...)
FastGenerateFullPlan ==
    /\ pc = "strategy"
    /\ strategy = "FastLLMStrategy"
    /\ \E duration_days \in 0..MaxFastDays, meal_types \in FastMealTypes,
          response \in FastResponses :
        call' = [op |-> "generate_full_plan",
                 duration_days |-> duration_days,
                 meal_types |-> meal_types,
                 response |-> response,
                 returned |-> generate_full_plan(duration_days, meal_types, response)]
    /\ pc' = "called"
    /\ UNCHANGED <<strategy, strategy_mode, used>>
    /\ UNCHANGED strategyCallFrame

\* the caller takes what the call returned; the strategy object stays
TakeResult ==
    /\ pc = "called"
    /\ pc' = "strategy"
    /\ call' = NoStrategyCall
    /\ result' = NoResult
    /\ flight' = <<>>
    /\ UNCHANGED <<strategy, strategy_mode, used>>
    /\ UNCHANGED generateFrame

\* RAGStrategy.generate_recipe(meal_type, ...), of a RAGStrategy or of the
\* rag_strategy of a HybridStrategy that routes the call to it
RAGGenerateRecipe ==
    /\ pc = "strategy"
    /\ strategy \in {"RAGStrategy", "HybridStrategy"}
    /\ \E meal_type \in {"lunch", "dinner"}, retrieval \in Retrievals,
          outcome \in GenOutcomes, excluded \in {{}, {1}} :
        LET a == AvailableCandidates(retrieval.candidates,
                                     UsedTitles(used.titles, meal_type))
        IN  \E selection \in IF retrieval.candidates = {}
                              THEN {[first |-> 0, titles |-> {}]}
                              ELSE Selections(a.candidates) :
            \E first \in IF retrieval.candidates = {} THEN {0}
                          ELSE FirstCandidates(selection, excluded) :
              LET r == rag_generate_recipe(meal_type, retrieval, outcome,
                                           selection, first, used.titles)
              IN  /\ call' = [op |-> "RAGStrategy.generate_recipe",
                              meal_type |-> meal_type,
                              retrieval |-> retrieval,
                              outcome |-> outcome,
                              used_before |-> UsedTitles(used.titles, meal_type),
                              used_after |-> UsedTitles(r.titles, meal_type),
                              selected |-> selection.titles,
                              excluded |-> excluded,
                              listed |-> prompt_candidates(selection),
                              first |-> first,
                              raised |-> r.raised,
                              recipe |-> r.recipe]
                  /\ used' = [used EXCEPT !.titles = r.titles]
    /\ pc' = "called"
    /\ UNCHANGED <<strategy, strategy_mode>>
    /\ UNCHANGED strategyCallFrame

\* LLMOnlyStrategy.generate_recipe(meal_type, ...), of an LLMOnlyStrategy or of
\* the llm_strategy of a HybridStrategy that routes the call to it: the name
\* of a generated recipe is added to used_recipes (the cap of 50 names is out
\* of reach of RecipeNames)
LLMGenerateRecipe ==
    /\ pc = "strategy"
    /\ strategy \in {"LLMOnlyStrategy", "HybridStrategy"}
    /\ \E meal_type \in {"lunch", "dinner"}, outcome \in GenOutcomes,
          name \in RecipeNames :
        /\ call' = [op |-> "LLMOnlyStrategy.generate_recipe",
                    meal_type |-> meal_type,
                    outcome |-> outcome,
                    raised |-> FALSE,
                    recipe |-> llm_generate_recipe(meal_type, outcome)]
        /\ used' = IF outcome \in {"complete", "fields missing"}
                   THEN [used EXCEPT !.names = @ \cup {name}]
                   ELSE used
    /\ pc' = "called"
    /\ UNCHANGED <<strategy, strategy_mode>>
    /\ UNCHANGED strategyCallFrame

\* strategy.reset()
StrategyReset ==
    /\ pc = "strategy"
    /\ used' = strategy_reset(strategy, used)
    /\ call' = [op |-> "reset"]
    /\ pc' = "called"
    /\ UNCHANGED <<strategy, strategy_mode>>
    /\ UNCHANGED strategyCallFrame

\* MealPlanGenerator.generate on a generator whose recipe_service.strategy is
\* the strategy object: reset_used_recipes, then the dispatch on the strategy;
\* the call record keeps the trackers as they are at the first generation call
GenerateOnInstance ==
    /\ pc = "strategy"
    /\ \E outcomes \in OutcomeChoices(parsed, strategy) :
        result' = generate(parsed, warning, strategy, outcomes)
    /\ used' = reset_used_recipes(used)
    /\ call' = [op |-> "MealPlanGenerator.generate",
                at_first_call |-> reset_used_recipes(used)]
    /\ pc' = "called"
    /\ UNCHANGED <<strategy, strategy_mode, flight>>
    /\ UNCHANGED generateFrame

(* The per-meal path of generate, call by call *)

\* a strategy that implements the abstract interface of base.py only
\* (generate_recipe, get_strategy_name, reset): the kind of strategy for which
\* generate takes the per-meal path
BaseInterfaceOnly == "RecipeGenerationStrategy"

BaseStrategyNew ==
    /\ pc = "service"
    /\ strategy' = BaseInterfaceOnly
    /\ call' = [op |-> "RecipeGenerationStrategy"]
    /\ pc' = "strategy"
    /\ UNCHANGED <<strategy_mode, used>>
    /\ UNCHANGED strategyCallFrame

\* what stands as recipe_service.generate_recipe: the method of recipe_service.py,
\* which takes neither duration_days nor exclusions, or the AsyncMock that
\* tests/test_meal_generator.py patches in, which takes any argument
Collaborators == {"RecipeService.generate_recipe", "AsyncMock"}
AcceptsPerMealCall(collaborator) == collaborator = "AsyncMock"

\* the events of the calls of a run
Started(f) == {i \in DOMAIN f : f[i].ev = "start"}
Ended(f) == {i \in DOMAIN f : f[i].ev \in {"complete", "raised"}}
InFlight(f) == Cardinality(Started(f)) > Cardinality(Ended(f))

\* generate reaches the loops of the per-meal path
PerMealBegin ==
    /\ pc = "strategy"
    /\ ~HasFullPlan(strategy) /\ ~HasDayMeals(strategy)
    /\ \E duration_days \in 1..MaxPerMealDays, meal_types \in FastMealTypes,
          collaborator \in Collaborators :
        call' = [op |-> "per-meal path",
                 duration_days |-> duration_days,
                 meal_types |-> meal_types,
                 collaborator |-> collaborator]
    /\ used' = reset_used_recipes(used)
    /\ flight' = <<>>
    /\ pc' = "per-meal"
    /\ UNCHANGED <<strategy, strategy_mode, result>>
    /\ UNCHANGED generateFrame

\* `await self.recipe_service.generate_recipe(...)`: the next call is made once
\* no call is pending; a collaborator that does not take the arguments raises
\* TypeError, which ends the run with the static plan
PerMealCall ==
    /\ pc = "per-meal"
    /\ ~InFlight(flight)
    /\ Cardinality(Started(flight)) < call.duration_days * Len(call.meal_types)
    /\ LET n == Cardinality(Started(flight)) + 1
       IN  IF AcceptsPerMealCall(call.collaborator)
           THEN /\ flight' = Append(flight, [ev |-> "start", n |-> n])
                /\ UNCHANGED <<pc, result>>
           ELSE /\ flight' = flight \o <<[ev |-> "start", n |-> n],
                                         [ev |-> "raised", n |-> n]>>
                /\ result' = _generate_fallback_meal_plan
                /\ pc' = "called"
    /\ UNCHANGED <<strategy, strategy_mode, used, call>>
    /\ UNCHANGED generateFrame

\* the pending call returns its recipe; after the last one the plan is built
PerMealReturn ==
    /\ pc = "per-meal"
    /\ InFlight(flight)
    /\ flight' = Append(flight, [ev |-> "complete", n |-> Cardinality(Started(flight))])
    /\ IF Cardinality(Started(flight)) = call.duration_days * Len(call.meal_types)
       THEN LET days == [day \in 1..call.duration_days |->
                           [day |-> day,
                            meals |-> StrategyMeals(call.meal_types, "generated")]]
            IN  /\ result' = Plan(call.duration_days, days,
                                  _calculate_summary(days, parsed), warning)
                /\ pc' = "called"
       ELSE UNCHANGED <<pc, result>>
    /\ UNCHANGED <<strategy, strategy_mode, used, call>>
    /\ UNCHANGED generateFrame

(* The request handler generate_meal_plan of main.py *)

\* query texts of a request: empty, blank, or a request for a plan
RequestQueries == {"", "   ", "3-day vegan meal plan"}

\* the generation modes the handler lets through (compared as given)
valid_modes == {"llm_only", "rag", "hybrid", "fast_llm"}

HttpReturned(status_code, has_plan) ==
    [raised |-> FALSE, class |-> "none", status |-> status_code, plan |-> has_plan]
HttpRaised(class, status_code) ==
    [raised |-> TRUE, class |-> class, status |-> status_code, plan |-> FALSE]

\* str.strip() of a request text
Strip(q) == IF q = "   " THEN "" ELSE q

\* the try block of the handler: what it returns or raises. generate returns
\* a plan for every text (it raises nothing).
handler_try(rate_ok, q, generation_mode) ==
    IF ~rate_ok THEN HttpReturned(429, FALSE)
    ELSE IF q = "" \/ Len(Strip(q)) = 0 THEN HttpRaised("HTTPException", 400)
    ELSE IF generation_mode # NoMode /\ generation_mode \notin valid_modes
    THEN HttpRaised("HTTPException", 400)
    ELSE HttpReturned(200, TRUE)

\* the except clauses of the handler: ValueError is answered 400, every other
\* Exception (HTTPException is one, and is no ValueError) is answered 500
handler_except(r) ==
    IF ~r.raised THEN r
    ELSE IF r.class = "ValueError" THEN HttpRaised("HTTPException", 400)
    ELSE HttpRaised("HTTPException", 500)

\* POST of a request body: MealPlanRequest refuses a query shorter than one
\* character (422) before the handler runs
generate_meal_plan(rate_ok, q, generation_mode) ==
    IF Len(q) < MinQueryLength THEN HttpRaised("RequestValidationError", 422)
    ELSE handler_except(handler_try(rate_ok, q, generation_mode))

PostGenerate ==
    /\ pc = "service"
    /\ \E rate_ok \in BOOLEAN, q \in RequestQueries, generation_mode \in Modes :
        LET r == generate_meal_plan(rate_ok, q, generation_mode)
        IN  http' = [status |-> r.status,
                     plan |-> r.plan,
                     rate_ok |-> rate_ok,
                     query |-> q,
                     generation_mode |-> generation_mode]
    /\ pc' = "responded"
    /\ UNCHANGED <<strategy, strategy_mode, call, used, flight>>
    /\ UNCHANGED <<query, llm, parsed, validated, revalidated, warning, result,
                   hybrid, lastCall, prevCall>>

\* the response is sent
Respond ==
    /\ pc = "responded"
    /\ http' = NoRequest
    /\ pc' = "service"
    /\ UNCHANGED <<strategy, strategy_mode, call, used, flight>>
    /\ UNCHANGED <<query, llm, parsed, validated, revalidated, warning, result,
                   hybrid, lastCall, prevCall>>

NextService ==
    \/ FactoryCreate \/ FastNew \/ StrategyDrop \/ TakeResult
    \/ FastGenerateFullPlan
    \/ RAGGenerateRecipe \/ LLMGenerateRecipe
    \/ StrategyReset \/ GenerateOnInstance
    \/ BaseStrategyNew \/ PerMealBegin \/ PerMealCall \/ PerMealReturn
    \/ PostGenerate \/ Respond

SpecService == InitService /\ [][NextService]_vars

----------------------------------------------------------------------------
(* Claims about generate *)

FallbackMealTypes == <<"breakfast", "lunch", "dinner">>

MealTypesOf(day) == [i \in DOMAIN day.meals |-> day.meals[i].meal_type]

NoGeneratedRecipe(plan) ==
    \A i \in DOMAIN plan.meal_plan : \A j \in DOMAIN plan.meal_plan[i].meals :
        plan.meal_plan[i].meals[j].source # "AI Generated"

RequestedDuration(q, outcome) ==
    IF outcome.ok THEN Some(outcome.raw.duration_days) ELSE q.dayNum

\* C3: a requested duration above 7 gives duration_days = 7 and 7 day entries,
\* one below 1 gives 1 and 1 entry, and a duration d in [1,7] gives d.
C3_DurationClamped ==
    (pc = "done" /\ RequestedDuration(query, llm) # None) =>
        LET d == Val(RequestedDuration(query, llm))
            expected == Clamp(MinDurationDays, MaxDurationDays, d)
        IN  /\ result.duration_days = expected
            /\ Len(result.meal_plan) = expected

\* C4: in every returned plan the day entries are numbered 1..duration_days,
\* every day holds exactly meals_per_day meals and the i-th meal of a day
\* carries the i-th requested meal type.
C4_PlanShape ==
    pc = "done" =>
        /\ Len(result.meal_plan) = result.duration_days
        /\ \A i \in DOMAIN result.meal_plan :
              /\ result.meal_plan[i].day = i
              /\ Len(result.meal_plan[i].meals) = parsed.meals_per_day
              /\ MealTypesOf(result.meal_plan[i]) = plan_meal_types(parsed)

\* C5: resolution of a query with contradictions returns an empty
\* contradictions list and one non-null warning; a query without
\* contradictions is returned unchanged with a null warning.
C5_ResolutionClearsAndWarns ==
    pc = "resolved" =>
        IF validated.contradictions # {}
        THEN parsed.contradictions = {} /\ warning # NoWarning
        ELSE parsed = validated /\ warning = NoWarning

\* a resolved query whose only contradiction has no " and " in it
C5_Witness ==
    /\ pc = "resolved"
    /\ validated.contradictions = {<<"vegan pescatarian">>}
    /\ warning = GenericWarning

Tags(p) == p.dietary_restrictions \cup p.preferences

\* C6: for every pair of the known-pair table with both items in the parsed
\* query, validation records a contradiction naming both, and after resolution
\* the winner is present, the loser is in neither list and the warning names
\* both.
C6_KnownPairsResolved ==
    pc = "resolved" =>
        \A rule \in resolution_rules \ {[pair |-> <<"vegan", "vegetarian">>,
                                        preferred |-> "vegan"]} :
            LET winner == rule.preferred
                loser == IF rule.pair[1] = winner THEN rule.pair[2] ELSE rule.pair[1]
            IN  {winner, loser} \subseteq Tags(validated) =>
                /\ \E c \in validated.contradictions :
                      {winner, loser} \subseteq {c[k] : k \in DOMAIN c}
                /\ winner \in Tags(parsed)
                /\ loser \notin Tags(parsed)
                /\ winner \in warning.kept
                /\ loser \in warning.removed

----------------------------------------------------------------------------
(* Claims about the validator and the Hybrid strategy *)

\* C8: validation is idempotent: validating the result of validate(text, p)
\* again with the same text changes no field, the list fields compared as sets.
C8_ValidateIdempotent ==
    pc = "revalidated" => revalidated = validated

\* a second validation of a query the first one changed in three fields
C8_Witness ==
    /\ pc = "revalidated"
    /\ validated.prep_time_max # parsed.prep_time_max
    /\ "quick-meals" \in validated.special_requirements \ parsed.special_requirements
    /\ "budget-friendly" \in validated.special_requirements
    /\ "premium" \in parsed.special_requirements
    /\ revalidated = validated

\* rank of the claim: breakfast=0, lunch=1, dinner=2, snack=3
ClaimRank == [breakfast |-> 0, lunch |-> 1, dinner |-> 2, snack |-> 3]

SameInputs(a, b) == a.day = b.day /\ a.meal_types = b.meal_types

\* C9: Hybrid routes (day, mealType) to the retrieval-augmented strategy
\* exactly when ((day*10 + rank) mod 10) < r*10 and to the generative one
\* otherwise; calls with identical inputs take the same route, and the
\* per-day method applies the same rule to each meal.
C9_HybridRouting ==
    (pc = "ready" /\ lastCall # NoCall) =>
        /\ \A i \in DOMAIN lastCall.meal_types :
              LET mt == lastCall.meal_types[i]
              IN  mt \in DOMAIN ClaimRank =>
                    (lastCall.routes[i] = "RAGStrategy"
                     <=> ((lastCall.day * 10 + ClaimRank[mt]) % 10) * RatioUnit
                            < hybrid.rag_ratio * 10)
        /\ \A i \in DOMAIN lastCall.routes :
              lastCall.routes[i] \in {"RAGStrategy", "LLMOnlyStrategy"}
        /\ (prevCall # NoCall /\ SameInputs(prevCall, lastCall)) =>
              prevCall.routes = lastCall.routes

\* ratio 0.7, day 2, dinner: retrieval-augmented, by generate_recipe and again
\* by generate_day_meals
C9_Witness ==
    /\ pc = "ready"
    /\ hybrid.rag_ratio = 70
    /\ lastCall = [via |-> "generate_day_meals", day |-> 2,
                   meal_types |-> <<"dinner", "dinner">>,
                   routes |-> <<"RAGStrategy", "RAGStrategy">>]
    /\ prevCall.via = "generate_recipe"
    /\ prevCall.day = 2
    /\ prevCall.routes = <<"RAGStrategy">>

\* C10: a Hybrid strategy constructed with ratio r uses min(1, max(0, r)) for
\* every supplied r, r = 0 included; the configured default is used only when
\* no ratio is supplied.
C10_EffectiveRatio ==
    hybrid.constructed =>
        hybrid.rag_ratio =
            IF hybrid.supplied = None THEN DefaultRagRatio
            ELSE Min(RatioUnit, Max(0, Val(hybrid.supplied)))

----------------------------------------------------------------------------
(* Claims about the service layer *)

\* the class the selector is said to return for a normalised mode name
SelectorTable(m) ==
    IF m = "rag" THEN "RAGStrategy"
    ELSE IF m = "hybrid" THEN "HybridStrategy"
    ELSE IF m = "fast_llm" THEN "FastLLMStrategy"
    ELSE "LLMOnlyStrategy"

\* C11: the strategy selector maps llm_only, rag, hybrid and fast_llm,
\* compared case-insensitively, to the generative, retrieval-augmented, hybrid
\* and fast-batch strategy, and every other mode name to the generative one.
C11_SelectorMapping ==
    (call.op = "RecipeStrategyFactory.create" /\ strategy_mode # NoMode) =>
        strategy = SelectorTable(normalize_mode(strategy_mode))

\* C12: generate_full_plan makes exactly one call to the generative service
\* and returns exactly duration_days lists of exactly len(meal_types) recipes,
\* the i-th with the i-th meal type, whatever the response (a failed call,
\* fewer days, fewer meals in a day, a malformed entry); every slot the
\* response does not fill holds the static fallback recipe.
C12_FullPlanShape ==
    call.op = "generate_full_plan" =>
        LET all_meals == call.returned.all_meals
            days == call.response.days
        IN  /\ call.returned.llm_calls = 1
            /\ Len(all_meals) = call.duration_days
            /\ \A d \in DOMAIN all_meals :
                  /\ Len(all_meals[d]) = Len(call.meal_types)
                  /\ \A i \in DOMAIN all_meals[d] :
                        /\ all_meals[d][i].meal_type = call.meal_types[i]
                        /\ (\/ ~call.response.ok
                            \/ d > Len(days)
                            \/ ~days[d].object
                            \/ i > Len(days[d].meals))
                           => all_meals[d][i].origin = "static fallback"

\* a response with one day, holding one meal, for a 2-day plan of 2 meals a day
C12_Witness ==
    /\ call.op = "generate_full_plan"
    /\ call.duration_days = 2
    /\ Len(call.meal_types) = 2
    /\ call.response.ok
    /\ Len(call.response.days) = 1
    /\ call.response.days[1].meals = <<"complete">>
    /\ call.returned.all_meals[1][1].origin = "response"
    /\ call.returned.all_meals[1][2].origin = "static fallback"
    /\ call.returned.all_meals[2][1].origin = "static fallback"

\* C13: RAGStrategy.generate_recipe never raises and returns a recipe with
\* every required field, whatever the retrieval gives (error, no candidate,
\* candidates) and whatever the generative call gives (success, failure,
\* malformed output); without candidates the recipe is the generative
\* strategy's, with candidates and a failed call it is the first candidate
\* converted.
C13_RagNeverRaises ==
    call.op = "RAGStrategy.generate_recipe" =>
        /\ ~call.raised
        /\ call.recipe.fields = RecipeFields
        /\ call.recipe.meal_type = call.meal_type
        /\ call.retrieval.candidates = {} =>
              call.recipe.origin \in {"generated", "static fallback"}
        /\ (call.retrieval.candidates # {} /\ call.outcome \in {"failed", "malformed"}) =>
              /\ call.recipe.origin = "candidate"
              /\ call.recipe.title = call.first
              /\ call.recipe.title \in call.selected

\* four candidates, three selected, the generative call failed
C13_Witness ==
    /\ call.op = "RAGStrategy.generate_recipe"
    /\ Cardinality(call.retrieval.candidates) = 4
    /\ Cardinality(call.selected) = 3
    /\ call.outcome = "failed"
    /\ call.recipe.origin = "candidate"
    /\ ~call.raised

\* C14: generate_day_meals of a strategy accepts the duration_days argument
\* that generate passes to it and raises no TypeError, so the per-day path of
\* generate completes without the static plan being substituted for the
\* strategy's days.
C14_DayMealsAcceptsDuration ==
    (pc = "done" /\ ~HasFullPlan(strategy) /\ HasDayMeals(strategy)) =>
        /\ AcceptsDurationDays(strategy)
        /\ DispatchError(strategy) # Some("TypeError")
        /\ \A i \in DOMAIN result.meal_plan :
              MealTypesOf(result.meal_plan[i]) = plan_meal_types(parsed)

\* C15: at the first generation call of every generate invocation the
\* strategy's used recipe names and used candidate titles are empty (its
\* reset() has run after contradiction resolution), even when the same
\* strategy object served earlier calls.
C15_StrategyResetBeforeFirstCall ==
    call.op = "MealPlanGenerator.generate" =>
        /\ call.at_first_call.names = {}
        /\ call.at_first_call.titles = {}

\* C16: in the per-meal path generate starts the recipe-generation calls of
\* all meals of all days before any one of them has completed.
C16_AllStartedBeforeAnyCompletes ==
    (call.op = "per-meal path" /\ Ended(flight) # {}) =>
        Cardinality(Started(flight)) = call.duration_days * Len(call.meal_types)

\* C17: a request whose query text is empty or whitespace-only is answered
\* 400 and no plan is generated for it, and so is a request with an invalid
\* generation_mode: it reaches the caller as a 400 and not as a 500.
C17_BadRequestIs400 ==
    (/\ http # NoRequest
     /\ http.rate_ok
     /\ \/ Strip(http.query) = ""
        \/ (http.generation_mode # NoMode /\ http.generation_mode \notin valid_modes))
    => (http.status = 400 /\ ~http.plan)

----------------------------------------------------------------------------
(* Claims about contradictions *)

\* the items a contradiction names
NamedItems(c) ==
    IF c = <<"vegan pescatarian">> THEN {"vegan", "pescatarian"}
    ELSE {Lower(c[k]) : k \in DOMAIN c}

\* the tags of a query, lower-cased as resolution compares them
LowerTags(p) == {Lower(t) : t \in Tags(p)}

\* C18: a query whose tags contain both vegan and vegetarian is treated as
\* non-conflicting: validation records no contradiction for the pair, and
\* resolution removes neither item and gives no warning about them.
C18_VeganVegetarianCompatible ==
    (pc = "resolved" /\ {"vegan", "vegetarian"} \subseteq Tags(validated)) =>
        /\ \A c \in validated.contradictions :
              ~({"vegan", "vegetarian"} \subseteq NamedItems(c))
        /\ {"vegan", "vegetarian"} \subseteq Tags(parsed)
        /\ "vegetarian" \notin warning.removed
        /\ (validated.contradictions = {} => warning = NoWarning)

\* C19: validation records a contradiction "A and B" for every known
\* conflicting pair (A, B) whose two items both occur in the union of
\* dietary_restrictions and preferences, wherever each item is placed.
C19_ContradictionWhereverPlaced ==
    pc = "resolved" =>
        \A pair \in known_contradictions \ {<<"vegan", "vegetarian">>} :
            {pair[1], pair[2]} \subseteq Tags(validated) =>
                \E c \in validated.contradictions :
                    /\ Len(c) = 2
                    /\ {c[1], c[2]} = {pair[1], pair[2]}

\* C20: resolution never returns an unresolved contradiction: for every entry
\* of the input contradictions, whatever its textual form, the items it names
\* are not both still among the tags after resolution.
C20_NoUnresolvedContradiction ==
    pc = "resolved" =>
        \A c \in validated.contradictions :
            ~(NamedItems(c) \subseteq LowerTags(parsed))

----------------------------------------------------------------------------
(* Claims about the parser, the trackers and the summary *)

\* C21: every parsed query returned by parse has meals_per_day in [1,4] and
\* as many meal types as meals_per_day, on the structured path and on the
\* keyword path, also for texts that give a count and name fewer or more meal
\* types.
C21_MealTypesMatchCount ==
    pc = "parsed" =>
        /\ validated.meals_per_day \in MinMealsPerDay..MaxMealsPerDay
        /\ Len(validated.meal_types) = validated.meals_per_day

----------------------------------------------------------------------------
(* The used recipe names of one LLMOnlyStrategy object *)

\* Names are numbered in the order in which they are first added, so a smaller
\* number is an older name; call.inserted counts the names added so far.

RECURSIVE DropAny(_, _)
\* the sets left when d elements of S are dropped
DropAny(S, d) ==
    IF d = 0 THEN {S}
    ELSE UNION {DropAny(S \ {x}, d - 1) : x \in S}

\* generate_recipe: used_recipes.add(name), then
\* `set(list(self.used_recipes)[-50:])` when more than 50 names are held: a
\* set lists its elements in hash order, so which names the slice keeps is any
\* 50 of them
AddCapped(S, n) ==
    LET T == S \cup {n}
    IN  IF Cardinality(T) > UsedRecipesCap
        THEN DropAny(T, Cardinality(T) - UsedRecipesCap)
        ELSE {T}

\* generate_day_meals: used_recipes.add(name) for each recipe of the response
AddBatch(S, first, count) == S \cup (first..(first + count - 1))

RECURSIVE AfterRecipes(_, _, _)
\* the exception path of generate_day_meals: one generate_recipe per meal type
\* (m of them, each adding a name); the sets that can result
AfterRecipes(S, first, m) ==
    IF m = 0 THEN {S}
    ELSE UNION {AfterRecipes(T, first + 1, m - 1) : T \in AddCapped(S, first)}

InitTracker ==
    /\ pc = "tracker"
    /\ strategy = "LLMOnlyStrategy"
    /\ query = BaseText
    /\ llm = LLMFailed
    /\ parsed = _parse_with_regex(BaseText)
    /\ validated = _parse_with_regex(BaseText)
    /\ revalidated = _parse_with_regex(BaseText)
    /\ warning = NoWarning
    /\ result = NoResult
    /\ hybrid = NoHybrid
    /\ lastCall = NoCall
    /\ prevCall = NoCall
    /\ strategy_mode = NoMode
    /\ call = [op |-> "LLMOnlyStrategy", inserted |-> 0]
    /\ http = NoRequest
    /\ used = NoneUsed
    /\ flight = <<>>

trackerFrame ==
    <<pc, strategy, query, llm, parsed, validated, revalidated, warning,
      result, hybrid, lastCall, prevCall, strategy_mode, http, flight>>

\* LLMOnlyStrategy.generate_recipe returning a generated recipe
TrackerGenerateRecipe ==
    /\ pc = "tracker"
    /\ call.inserted < MaxNames
    /\ \E S \in AddCapped(used.names, call.inserted + 1) :
        used' = [used EXCEPT !.names = S]
    /\ call' = [op |-> "generate_recipe", inserted |-> call.inserted + 1]
    /\ UNCHANGED trackerFrame

\* LLMOnlyStrategy.generate_day_meals: a response with `count` recipes, or the
\* exception path with one generate_recipe per meal type
TrackerGenerateDayMeals ==
    /\ pc = "tracker"
    /\ \E count \in 1..MaxBatch, batch_ok \in BOOLEAN :
        /\ call.inserted + count <= MaxNames
        /\ \E S \in IF batch_ok
                    THEN {AddBatch(used.names, call.inserted + 1, count)}
                    ELSE AfterRecipes(used.names, call.inserted + 1, count) :
            used' = [used EXCEPT !.names = S]
        /\ call' = [op |-> "generate_day_meals", inserted |-> call.inserted + count]
    /\ UNCHANGED trackerFrame

\* LLMOnlyStrategy.reset
TrackerReset ==
    /\ pc = "tracker"
    /\ used' = strategy_reset(strategy, used)
    /\ call' = [op |-> "reset", inserted |-> call.inserted]
    /\ UNCHANGED trackerFrame

NextTracker ==
    \/ TrackerGenerateRecipe
    \/ TrackerGenerateDayMeals
    \/ TrackerReset

SpecTracker == InitTracker /\ [][NextTracker]_vars

\* C22: after any sequence of generate_recipe, generate_day_meals and reset
\* calls on one LLMOnlyStrategy object its used recipe names are at most 50, and
\* the names dropped are the oldest: every name held is newer than every name
\* dropped.
C22_UsedNamesCappedOldestEvicted ==
    pc = "tracker" =>
        /\ Cardinality(used.names) <= UsedRecipesCap
        /\ \A n \in used.names :
              \A m \in (1..call.inserted) \ used.names : m < n

----------------------------------------------------------------------------
(* Two generate_recipe calls in flight on one RAGStrategy object *)

\* flight holds the two calls. A call reads and filters the used titles and
\* selects its candidates under the lock (rag_strategy.py:94-101), releases the
\* lock, awaits the generative call, and takes the lock again to record the
\* titles it selected (rag_strategy.py:115-121). Neither locked section awaits,
\* so each is one step.

CallIdle == [stage |-> "idle"]
Calls == {1, 2}

\* the titles selected by the calls other than i that are between their read
\* and their write for the meal type
PendingTitles(f, i, meal_type) ==
    UNION {f[j].selected :
             j \in {k \in Calls \ {i} :
                      f[k].stage = "selected" /\ f[k].meal_type = meal_type}}

\* whether a selection S takes a title that a call in flight has selected
\* although two or more candidates are neither used nor selected by such a call
SelectedPending(candidates, usedNow, pending, S) ==
    /\ Cardinality(candidates \ (usedNow \cup pending)) >= 2
    /\ S \cap pending # {}

InitRag ==
    /\ pc = "rag"
    /\ strategy = "RAGStrategy"
    /\ query = BaseText
    /\ llm = LLMFailed
    /\ parsed = _parse_with_regex(BaseText)
    /\ validated = _parse_with_regex(BaseText)
    /\ revalidated = _parse_with_regex(BaseText)
    /\ warning = NoWarning
    /\ result = NoResult
    /\ hybrid = NoHybrid
    /\ lastCall = NoCall
    /\ prevCall = NoCall
    /\ strategy_mode = NoMode
    /\ call = [op |-> "RAGStrategy"]
    /\ http = NoRequest
    /\ used = NoneUsed
    /\ flight = <<CallIdle, CallIdle>>

ragFrame ==
    <<pc, strategy, query, llm, parsed, validated, revalidated, warning,
      result, hybrid, lastCall, prevCall, strategy_mode, call, http>>

\* the first locked section of call i: filter, empty the used list when the
\* filter asks for it, shuffle and select
RagSelect(i) ==
    /\ pc = "rag"
    /\ flight[i].stage = "idle"
    /\ \E meal_type \in {"dinner"}, n \in 1..MaxSharedCandidates :
        LET usedNow == UsedTitles(used.titles, meal_type)
            a == AvailableCandidates(1..n, usedNow)
        IN  \E S \in {s.titles : s \in Selections(a.candidates)} :
              /\ flight' = [flight EXCEPT ![i] =
                              [stage |-> "selected",
                               meal_type |-> meal_type,
                               candidates |-> 1..n,
                               selected |-> S,
                               clash |-> SelectedPending(1..n, usedNow,
                                   PendingTitles(flight, i, meal_type), S)]]
              /\ used' = IF a.emptied
                         THEN [used EXCEPT !.titles =
                                  {t \in @ : t[1] # meal_type}]
                         ELSE used
    /\ UNCHANGED ragFrame

\* the second locked section of call i, after the generative call returned:
\* the selected titles are appended to the used list, and the call returns
RagRecord(i) ==
    /\ pc = "rag"
    /\ flight[i].stage = "selected"
    /\ used' = [used EXCEPT !.titles =
                   @ \cup {<<flight[i].meal_type, t>> : t \in flight[i].selected}]
    /\ flight' = [flight EXCEPT ![i] = CallIdle]
    /\ UNCHANGED ragFrame

\* RAGStrategy.reset(): used_candidates.clear(), the lock not taken
RagReset ==
    /\ pc = "rag"
    /\ used' = strategy_reset(strategy, used)
    /\ UNCHANGED <<flight>>
    /\ UNCHANGED ragFrame

NextRag ==
    \/ \E i \in Calls : RagSelect(i)
    \/ \E i \in Calls : RagRecord(i)
    \/ RagReset

SpecRag == InitRag /\ [][NextRag]_vars

----------------------------------------------------------------------------
(* Claims about RAGStrategy *)

\* C24: in RAGStrategy.generate_recipe no candidate whose title is already
\* used for the meal type is selected while at least 2 unused candidates
\* remain; when fewer than 2 remain the used list of the meal type is emptied
\* and the selection is made from the full candidate list; so the selection is
\* non-empty whenever the candidate list is.
C24_UsedCandidatesFiltered ==
    (call.op = "RAGStrategy.generate_recipe" /\ call.retrieval.candidates # {}) =>
        LET candidates == call.retrieval.candidates
            unused == candidates \ call.used_before
        IN  /\ call.selected # {}
            /\ call.selected \subseteq candidates
            /\ Cardinality(unused) >= 2 => call.selected \subseteq unused
            /\ Cardinality(unused) < 2 =>
                  /\ call.used_after = call.selected
                  /\ Cardinality(call.selected) =
                        Min(max_prompt_candidates, Cardinality(candidates))

----------------------------------------------------------------------------
(* RAGStrategy._validate_recipe: the nutrition check *)

NutritionKeys == {"calories", "protein", "carbs", "fat"}

\* the nutrition of a candidate, and the values the generative service can
\* put in place of one it was told to copy
Nutrition(calories, others) ==
    [k \in NutritionKeys |-> IF k = "calories" THEN calories ELSE others]
CandidateNutritions ==
    {Nutrition(100, 10), Nutrition(110, 11), Nutrition(200, 20), Nutrition(0, 10)}
ModelValues == {0, 8, 12, 13, 80, 120, 121, 200}

\* abs(recipe_val - candidate_val) / candidate_val > 0.2
Diverges(recipe_val, candidate_val) ==
    LET diff == IF recipe_val >= candidate_val THEN recipe_val - candidate_val
                ELSE candidate_val - recipe_val
    IN  candidate_val > 0 /\ 100 * diff > TolerancePercent * candidate_val

\* variant: no correction
validate_nutrition_unchecked(nutritional_info, candidates) == nutritional_info

\* the loop over the four keys: each value is compared with candidates[0]
validate_nutrition(nutritional_info, candidates) ==
    IF Len(candidates) = 0 THEN nutritional_info
    ELSE [k \in NutritionKeys |->
            IF Diverges(nutritional_info[k], candidates[1][k])
            THEN candidates[1][k]
            ELSE nutritional_info[k]]

----------------------------------------------------------------------------
(* The functions of the strategies and of the summary, applied to inputs *)

InitFunctions ==
    /\ pc = "functions"
    /\ strategy = NoStrategyAttribute
    /\ query = BaseText
    /\ llm = LLMFailed
    /\ parsed = _parse_with_regex(BaseText)
    /\ validated = _parse_with_regex(BaseText)
    /\ revalidated = _parse_with_regex(BaseText)
    /\ warning = NoWarning
    /\ result = NoResult
    /\ hybrid = NoHybrid
    /\ lastCall = NoCall
    /\ prevCall = NoCall
    /\ ServiceIdle

functionsFrame ==
    <<strategy, query, llm, parsed, validated, revalidated, warning,
      result, hybrid, lastCall, prevCall, strategy_mode, http, used, flight>>

\* _validate_recipe(recipe, meal_type, candidates) on a recipe whose nutrition
\* the generative service took from the candidate it chose, one value changed
\* or not
RagValidateNutrition ==
    /\ pc = "functions"
    /\ \E candidates \in UNION {[1..n -> CandidateNutritions] :
                                  n \in 1..MaxValidatedCandidates} :
       \E chosen \in DOMAIN candidates, key \in {"calories", "protein"} :
       \E v \in ModelValues \cup {candidates[chosen][key]} :
         LET info == [candidates[chosen] EXCEPT ![key] = v]
         IN  call' = [op |-> "RAGStrategy._validate_recipe",
                      candidates |-> candidates,
                      chosen |-> chosen,
                      nutritional_info |-> info,
                      validated |-> validate_nutrition(info, candidates)]
    /\ pc' = "applied"
    /\ UNCHANGED functionsFrame

\* the function returned
FunctionsReturn ==
    /\ pc = "applied"
    /\ pc' = "functions"
    /\ call' = NoStrategyCall
    /\ UNCHANGED functionsFrame

MaxSummaryMeals == 2

\* a meal of the generative service with the fields the summary reads
SummaryMeal(preparation_time, calories) ==
    [meal_type |-> "dinner", source |-> "AI Generated", well_typed |-> TRUE,
     preparation_time |-> preparation_time, calories |-> calories]

\* meals with and without a preparation time and calories; the texts are
\* "quick and easy", "10 mins", "45 minutes" and "1 hour 30 mins"
SummaryMeals ==
    { Recipe("dinner", "AI Generated", TRUE),
      [meal_type |-> "dinner", source |-> "AI Generated", well_typed |-> TRUE,
       preparation_time |-> PrepText(<<>>)],
      [meal_type |-> "dinner", source |-> "AI Generated", well_typed |-> TRUE,
       preparation_time |-> PrepText(<<1, 30>>)],
      SummaryMeal(PrepText(<<10>>), 350),
      SummaryMeal(PrepText(<<45>>), 450),
      SummaryMeal(PrepText(<<>>), 280) }

\* plans of one or two days, each day with up to MaxSummaryMeals meals
SummaryPlans ==
    LET dayMeals == UNION {[1..n -> SummaryMeals] : n \in 0..MaxSummaryMeals}
    IN  UNION {[1..d -> {[day |-> 1, meals |-> m] : m \in dayMeals}] :
                 d \in {1, 2}}

\* _calculate_summary(meal_plan, parsed) on a plan of the generative service
CalculateSummary ==
    /\ pc = "functions"
    /\ \E days \in SummaryPlans, requirements \in {{}, {"budget-friendly"}} :
         LET p == [parsed EXCEPT !.special_requirements = requirements]
         IN  call' = [op |-> "MealPlanGenerator._calculate_summary",
                      meal_plan |-> days,
                      special_requirements |-> requirements,
                      summary |-> _calculate_summary(days, p)]
    /\ pc' = "applied"
    /\ UNCHANGED functionsFrame

NextFunctions ==
    \/ RagValidateNutrition
    \/ CalculateSummary
    \/ FunctionsReturn

SpecFunctions == InitFunctions /\ [][NextFunctions]_vars

\* C25: after _validate_recipe each nutrition value equals the value of the
\* generative service when that is within 20% of the candidate the service
\* chose, and that candidate's value otherwise; a value copied from the chosen
\* candidate is never replaced, whichever position that candidate has.
C25_NutritionAgainstChosenCandidate ==
    call.op = "RAGStrategy._validate_recipe" =>
        \A k \in NutritionKeys :
            LET c == call.candidates[call.chosen][k]
                m == call.nutritional_info[k]
            IN  c > 0 =>
                  call.validated[k] = IF Diverges(m, c) THEN c ELSE m

\* C26: when exclusions are given and at least one candidate matches none of
\* them, no candidate whose title or source contains an exclusion keyword is
\* listed in the prompt sent to the generative service, and none is used as
\* the direct candidate fallback.
C26_ExcludedCandidatesKeptOut ==
    (/\ call.op = "RAGStrategy.generate_recipe"
     /\ call.retrieval.candidates # {}
     /\ call.excluded # {}
     /\ call.selected \ call.excluded # {})
    => /\ call.listed \cap call.excluded = {}
       /\ call.recipe.origin = "candidate" => call.recipe.title \notin call.excluded

----------------------------------------------------------------------------
(* C27: the average preparation time and the meal count of the summary *)

SummaryApplied == call.op = "MealPlanGenerator._calculate_summary"

HasPrepKey(meal) == "preparation_time" \in DOMAIN meal

\* the meals whose text holds no integer
Unparseable(meals) ==
    {i \in DOMAIN meals :
        HasPrepKey(meals[i]) /\ meals[i].preparation_time.ints = <<>>}

\* the minutes a meal stands for: the first integer of its text, 30 otherwise
Minutes(meal) ==
    IF HasPrepKey(meal) /\ meal.preparation_time.ints # <<>>
    THEN meal.preparation_time.ints[1]
    ELSE 30

RECURSIVE SumMinutes(_, _)
SumMinutes(meals, I) ==
    IF I = {} THEN 0
    ELSE LET i == CHOOSE i \in I : TRUE
         IN  Minutes(meals[i]) + SumMinutes(meals, I \ {i})

\* n is the floor of the mean of the minutes of the meals at the indices I
FloorOfMean(n, meals, I) ==
    /\ n * Cardinality(I) <= SumMinutes(meals, I)
    /\ SumMinutes(meals, I) < (n + 1) * Cardinality(I)

RECURSIVE MealCount(_, _)
MealCount(days, I) ==
    IF I = {} THEN 0
    ELSE LET i == CHOOSE i \in I : TRUE
         IN  Len(days[i].meals) + MealCount(days, I \ {i})

\* C27 as stated: avg_prep_time is the floor of the mean, over all meals of the
\* plan, of the first integer of the preparation-time text, a meal whose text
\* has no integer counting as 30; total_meals is the sum of the days' meal
\* counts
C27_PrepTimeMeanOverAllMeals ==
    SummaryApplied =>
        LET meals == AllMeals(call.meal_plan, 1)
        IN  /\ meals # <<>> =>
                FloorOfMean(call.summary.avg_prep_time, meals, DOMAIN meals)
            /\ call.summary.total_meals =
                    MealCount(call.meal_plan, DOMAIN call.meal_plan)

\* C27 amended: the mean is taken over the meals whose text holds an integer
\* and the meals without a preparation time (each counted as 30); a meal whose
\* text holds no integer is left out, and when every meal is left out the
\* summary says 25; total_meals is the sum of the days' meal counts
C27_PrepTimeMeanOverParsedMeals ==
    SummaryApplied =>
        LET meals == AllMeals(call.meal_plan, 1)
            counted == DOMAIN meals \ Unparseable(meals)
        IN  /\ counted # {} =>
                FloorOfMean(call.summary.avg_prep_time, meals, counted)
            /\ counted = {} => call.summary.avg_prep_time = 25
            /\ call.summary.total_meals =
                    MealCount(call.meal_plan, DOMAIN call.meal_plan)

\* a summary of a plan of two days with a meal whose text holds no integer, a
\* meal without a preparation time and a meal whose text holds one
C27_Witness ==
    /\ SummaryApplied
    /\ Len(call.meal_plan) = 2
    /\ LET meals == AllMeals(call.meal_plan, 1)
       IN  /\ Unparseable(meals) # {}
           /\ \E i \in DOMAIN meals : ~HasPrepKey(meals[i])
           /\ \E i \in DOMAIN meals :
                  HasPrepKey(meals[i]) /\ meals[i].preparation_time.ints # <<>>
           /\ call.summary.avg_prep_time #
                  SumMinutes(meals, DOMAIN meals) \div Len(meals)

----------------------------------------------------------------------------
(* C28: the mix of strategies across the days of a plan *)

\* the two latest calls are generate_day_meals for two different days of a
\* plan with all four meal types
TwoDaysOfOnePlan ==
    /\ pc = "ready"
    /\ lastCall # NoCall /\ prevCall # NoCall
    /\ lastCall.via = "generate_day_meals"
    /\ prevCall.via = "generate_day_meals"
    /\ lastCall.day # prevCall.day
    /\ lastCall.meal_types = MealTypeOrder
    /\ prevCall.meal_types = MealTypeOrder

RoutesOf(c) == {c.routes[i] : i \in DOMAIN c.routes}

\* C28: for a fixed meal type and ratio Hybrid gives different days different
\* strategy mixes; with rag_ratio 0.7 the slots of a plan go partly to the
\* retrieval-augmented and partly to the generative strategy, so the plan
\* holds recipes of both.
C28_DaysGetDifferentMixes ==
    (TwoDaysOfOnePlan /\ hybrid.rag_ratio = 70) =>
        /\ RoutesOf(lastCall) \cup RoutesOf(prevCall) =
               {"RAGStrategy", "LLMOnlyStrategy"}
        /\ \E i \in DOMAIN lastCall.routes :
               lastCall.routes[i] # prevCall.routes[i]

----------------------------------------------------------------------------
(* C30: the kept and the removed items of a resolution *)

\* every contradiction names two items, both among the requirements of the
\* query the resolution is given
ContradictionsNamePresentItems ==
    /\ validated.contradictions # {}
    /\ \A c \in validated.contradictions :
          /\ Len(c) = 2
          /\ \A k \in 1..2 : Lower(c[k]) \in LowerTags(validated)

\* C30: after the resolution of contradictions whose items are all present in
\* the query, no item is reported both as kept and as removed, and every item
\* the warning names as kept is still among the dietary restrictions and
\* preferences of the resolved query, also when one item occurs in several
\* contradictions.
C30_KeptItemsStayRemovedItemsGo ==
    (pc = "resolved" /\ ContradictionsNamePresentItems) =>
        /\ warning.kept \cap warning.removed = {}
        /\ warning.kept \subseteq LowerTags(parsed)

----------------------------------------------------------------------------
(* C29: the summary of the static plan *)

\* a query without restrictions, preferences or special requirements
PlainQuery == _parse_with_regex(BaseText)

\* C29: the summary attached to the static plan is what the summary
\* computation yields for the plan's nine meals with no restrictions or
\* preferences: the same total_meals, dietary_compliance, estimated_cost range
\* and avg_prep_time.
C29_FallbackSummaryIsComputed ==
    (pc = "done" /\ result.kind = "plan" /\ result.warning = FallbackWarning) =>
        result.summary = _calculate_summary(result.meal_plan, PlainQuery)

====
